---- MODULE Spec2Model ----
(***************************************************************************)
(* Model of the check-and-record engine of the status monitor:             *)
(*   lib/checker.js  checkHTTP, checkTCP, checkDNS, checkUrl               *)
(*   index.js        checkAllServices, saveResults                        *)
(*   index.js        loadConfig, normalizeService, uptime, lastIncident    *)
(*   lib/utils.js    getServiceHistory, calculateTrend, generateReportLink *)
(*   index.js        generateHistoryBar                                    *)
(*   manage-issues.js                                                      *)
(*   scripts/release.js, the changelog functions                           *)
(*   lib/yaml-parser.js  parseYAML, parseValue                             *)
(*   src/main.js     the click listeners of the period buttons             *)
(*                                                                         *)
(* Spec       one process run (one batch) at the grain of single probe     *)
(*            attempts, from config.services.map(checkUrl) to the          *)
(*            continuation after Promise.all (save and render).            *)
(* StoreSpec  a sequence of process runs against the same data directory,  *)
(*            each run one step, the outcomes of its probes drawn from     *)
(*            the outcomes the probes can return.                          *)
(* FaultSpec  StoreSpec with file operations of saveResults that throw.    *)
(* ConfigSpec loadConfig and normalizeService on a configuration file.     *)
(* MetricsSpec the metrics of the renderers on a history array.            *)
(* TrendSpec  calculateTrend on a history array and a current result.      *)
(* BarSpec    generateHistoryBar on a history array.                       *)
(* IssueSpec  runs of the monitor, each followed by manageIssues.          *)
(* LinkSpec   generateReportLink on the report of the configuration.       *)
(* ReleaseSpec release.js and the changelog functions on CHANGELOG.md.     *)
(* BaselineSpec the trend baseline on a history of two partitions.         *)
(* FairSpec   Spec with every enabled step eventually taken.               *)
(* YamlSpec   parseYAML on a config.yml written as the README shows.       *)
(* OrderSpec  the batch run over the same targets in two orders.           *)
(* PageSpec   the period buttons of the generated service pages.           *)
(*                                                                         *)
(* A JavaScript null is the empty tuple << >>, a present value v is <<v>>. *)
(* Instants and durations are milliseconds.                                *)
(***************************************************************************)
EXTENDS Integers, Sequences, FiniteSets, TLC

VARIABLES
    phase,      \* "idle" | "probing" | "failed" | "done": where checkAllServices is
    services,   \* config.services of this run
    probes,     \* one record per services[i]: the promise checkUrl returned for it
    results,    \* the array Promise.all resolved to (<< >> before)
    now,        \* the Date taken after Promise.all (<< >> before)
    disk,       \* the data directory: status.json, history/YYYY-MM.json, badge/*.svg
    index,      \* ids of the service cards written to index.html, in order
    pages,      \* ids of the service pages written
    clock,      \* the instant at which the next process run starts
    runs,       \* number of process runs started
    pushed,     \* history variable: entries ever pushed to each partition
    configFile, \* the configuration file loadConfig reads (<< >> when not modelled)
    hist,       \* the history array handed to the metrics of the renderers
    view,       \* what the renderers computed from hist (<< >> before), or the
                \* service pages they wrote, as the browser holds them
    issues,     \* the issues of the repository on GitHub, in the order of creation
    repo,       \* CHANGELOG.md, the version of package.json, the last exit code
    twin        \* the same batch with its targets in another order (<< >> when not modelled)

\* the variables that only the specifications of loadConfig and of the
\* renderers' metrics change
aux == <<configFile, hist, view, issues, repo, twin>>

vars == <<phase, services, probes, results, now, disk, index, pages, clock, runs, pushed,
          configFile, hist, view, issues, repo, twin>>

(***************************************************************************)
(* Bounds of the model                                                     *)
(***************************************************************************)
MaxServices == 3     \* longest config.services
FastMs      == 40    \* duration of an attempt that is answered or refused at once
MonthMs     == 30000 \* length of a calendar month (scaled)
Interval    == 6000  \* time between the starts of two process runs (scaled)
HistoryCap  == 2     \* stands for the 4320 of saveResults (scaled)

(***************************************************************************)
(* Program constants                                                       *)
(***************************************************************************)
RETRIES         == 3
RETRY_DELAY     == 2000
DEFAULT_TIMEOUT == 10000
DEFAULT_EXPECTED == 200

None    == << >>
Some(x) == <<x>>

Max(a, b) == IF a >= b THEN a ELSE b

RECURSIVE MaxOver(_, _)
MaxOver(f, n) == IF n = 0 THEN 0 ELSE Max(f[n], MaxOver(f, n - 1))

(***************************************************************************)
(* Target descriptors (the output of normalizeService)                     *)
(***************************************************************************)
Service(id, type, maint, port) ==
    [id |-> id, type |-> type, timeout |-> DEFAULT_TIMEOUT, maintenance |-> maint,
     expectedStatus |-> IF type = "http" THEN Some(DEFAULT_EXPECTED) ELSE None,
     port |-> port]

Pool ==
    { Service("web",   "http", None, None),
      Service("db",    "tcp",  None, Some(5432)),
      Service("ns",    "dns",  None, None),
      Service("shop",  "http", Some("upgrade"), None),
      Service("cache", "tcp",  None, None) }        \* malformed: a TCP target without port

Ids == { s.id : s \in Pool }

\* the lists config.services can be: targets of the pool, each at most once
Configs ==
    UNION { { c \in [1..n -> Pool] : \A i, j \in 1..n : c[i].id = c[j].id => i = j }
            : n \in 1..MaxServices }


(***************************************************************************)
(* Probe Executor: lib/checker.js                                          *)
(***************************************************************************)
ResponseCodes == {200, 204, 503}

Ev(kind, code) == [kind |-> kind, code |-> code]

\* what one attempt can meet on the network
Events(svc) ==
    IF svc.type = "tcp" THEN { Ev("connect", None), Ev("timeout", None), Ev("error", None) }
    ELSE IF svc.type = "dns"
         THEN { Ev("resolved", None), Ev("error", None), Ev("silent", None) }
    ELSE { Ev("response", Some(c)) : c \in ResponseCodes }
         \cup { Ev("timeout", None), Ev("error", None) }

Failed(ev) == ev.kind \in {"timeout", "error"}

\* an attempt ended by its timer lasts service.timeout
Duration(svc, ev) == IF ev.kind = "timeout" THEN svc.timeout ELSE FastMs

\* error.message of a failed attempt
ErrorMessage(svc, ev) ==
    IF svc.type = "tcp"
    THEN (IF ev.kind = "timeout" THEN "Connection timeout" ELSE "connect ECONNREFUSED")
    ELSE IF svc.type = "dns" THEN "queryA ENOTFOUND"
    ELSE (IF ev.kind = "timeout" THEN "This operation was aborted" ELSE "fetch failed")

\* attempt < RETRIES
ShouldRetry(attempt) == attempt < RETRIES

\* mutant of HttpStatus: any 2xx response counts as up (response.ok)
HttpStatus_Range(code, expected) == IF code >= 200 /\ code < 300 THEN "up" ELSE "down"

\* response.status === service.expectedStatus ? 'up' : 'down'
HttpStatus(code, expected) == IF Some(code) = expected THEN "up" ELSE "down"

\* the object checkUrl returns for a probed target
Outcome(svc, status, statusCode, responseTime, error, ts) ==
    [id |-> svc.id, status |-> status, statusCode |-> statusCode,
     responseTime |-> responseTime, timestamp |-> ts, error |-> error,
     maintenance |-> None]

\* the object checkUrl returns for a target under maintenance
MaintenanceOutcome(svc, ts) ==
    [id |-> svc.id, status |-> "maintenance", statusCode |-> None,
     responseTime |-> 0, timestamp |-> ts, error |-> None,
     maintenance |-> svc.maintenance]

Fulfil(p, ev, out) ==
    [p EXCEPT !.pc = "fulfilled", !.calls = @ + 1, !.last = Some(ev),
              !.t = out.timestamp, !.result = Some(out)]

\* mutant of RetryOrDown: the last failure is thrown again instead of returned
RetryOrDown_Throw(svc, p, ev, t1) ==
    IF p.attempt < RETRIES
    THEN [p EXCEPT !.attempt = @ + 1, !.calls = @ + 1, !.delays = @ + 1,
                   !.last = Some(ev), !.t = t1 + RETRY_DELAY, !.start = t1 + RETRY_DELAY]
    ELSE [p EXCEPT !.pc = "rejected", !.calls = @ + 1, !.last = Some(ev), !.t = t1]

\* mutant of RetryOrDown: the message of the last failure is not reported
RetryOrDown_NoError(svc, p, ev, t1) ==
    IF ShouldRetry(p.attempt)
    THEN [p EXCEPT !.attempt = @ + 1, !.calls = @ + 1, !.delays = @ + 1,
                   !.last = Some(ev), !.t = t1 + RETRY_DELAY, !.start = t1 + RETRY_DELAY]
    ELSE Fulfil(p, ev, Outcome(svc, "down", None, t1 - p.start, None, t1))

\* catch branch / 'timeout' and 'error' handlers: wait RETRY_DELAY and call again
\* with attempt + 1 (the new call takes its own start), or give up
RetryOrDown(svc, p, ev, t1) ==
    IF ShouldRetry(p.attempt)
    THEN [p EXCEPT !.attempt = @ + 1, !.calls = @ + 1, !.delays = @ + 1,
                   !.last = Some(ev), !.t = t1 + RETRY_DELAY, !.start = t1 + RETRY_DELAY]
    ELSE Fulfil(p, ev, Outcome(svc, "down", None, t1 - p.start,
                               Some(ErrorMessage(svc, ev)), t1))

\* one attempt of checkHTTP(service, attempt) meeting ev
checkHTTP(svc, p, ev) ==
    LET t1 == p.t + Duration(svc, ev) IN
    IF ev.kind = "response"
    THEN Fulfil(p, ev, Outcome(svc, HttpStatus(ev.code[1], svc.expectedStatus),
                               ev.code, t1 - p.start, None, t1))
    ELSE RetryOrDown(svc, p, ev, t1)

\* one attempt of checkTCP(service, attempt) meeting ev
checkTCP(svc, p, ev) ==
    LET t1 == p.t + Duration(svc, ev) IN
    IF ev.kind = "connect"
    THEN Fulfil(p, ev, Outcome(svc, "up", None, t1 - p.start, None, t1))
    ELSE RetryOrDown(svc, p, ev, t1)

\* one attempt of checkDNS(service, attempt) meeting ev. The await of
\* dns.resolve is the only thing the attempt waits for: no timer is armed and
\* service.timeout is not read, so a resolver that is never answered ("silent")
\* leaves the call suspended ("hung")
checkDNS(svc, p, ev) ==
    LET t1 == p.t + Duration(svc, ev) IN
    IF ev.kind = "silent"
    THEN [p EXCEPT !.pc = "hung", !.calls = @ + 1, !.last = Some(ev)]
    ELSE IF ev.kind = "resolved"
    THEN Fulfil(p, ev, Outcome(svc, "up", None, t1 - p.start, None, t1))
    ELSE RetryOrDown(svc, p, ev, t1)

\* net.createConnection throws inside the promise executor: no port
ConnectThrows(svc) == svc.type = "tcp" /\ svc.port = None

\* mutant of checkUrl: the maintenance field is not looked at
checkUrl_NoGate(svc, attempt, t0) ==
    LET p0 == [pc |-> "pending", attempt |-> attempt, calls |-> 0, delays |-> 0,
               start |-> t0, t |-> t0, last |-> None, result |-> None] IN
    IF svc.type = "tcp" /\ svc.port = None THEN [p0 EXCEPT !.pc = "rejected"] ELSE p0

\* the synchronous part of checkUrl(service, attempt), called at instant t0
checkUrl(svc, attempt, t0) ==
    LET p0 == [pc |-> "pending", attempt |-> attempt, calls |-> 0, delays |-> 0,
               start |-> t0, t |-> t0, last |-> None, result |-> None] IN
    IF svc.maintenance # None
    THEN [p0 EXCEPT !.pc = "fulfilled", !.result = Some(MaintenanceOutcome(svc, t0))]
    ELSE IF ConnectThrows(svc) THEN [p0 EXCEPT !.pc = "rejected"]
    ELSE p0

\* the asynchronous part of checkUrl: the attempt of the target's kind
checkUrlAttempt(svc, p, ev) ==
    IF svc.type = "tcp" THEN checkTCP(svc, p, ev)
    ELSE IF svc.type = "dns" THEN checkDNS(svc, p, ev)
    ELSE checkHTTP(svc, p, ev)

(***************************************************************************)
(* History Store: saveResults in index.js, getServiceHistory in utils.js   *)
(***************************************************************************)
MonthOf(t) == t \div MonthMs

Put(f, k, v) == (k :> v) @@ f

\* history.slice(-HistoryCap)
SliceLast(h, n) == IF Len(h) > n THEN SubSeq(h, Len(h) - n + 1, Len(h)) ELSE h

\* mutant of AppendCapped: slice(0, 4320), the oldest entries are kept
AppendCapped_KeepOldest(h, e) ==
    LET h1 == Append(h, e) IN IF Len(h1) > HistoryCap THEN SubSeq(h1, 1, HistoryCap) ELSE h1

\* history.push(entry); if (history.length > 4320) history = history.slice(-4320)
AppendCapped(h, e) ==
    LET h1 == Append(h, e) IN IF Len(h1) > HistoryCap THEN SliceLast(h1, HistoryCap) ELSE h1

\* mutant of StatusData: lastCheck taken from the outcome, not from the run
StatusData_OwnTime(r, nowT) ==
    [lastCheck |-> r.timestamp, status |-> r.status, statusCode |-> r.statusCode,
     responseTime |-> r.responseTime, timestamp |-> r.timestamp, error |-> r.error]

StatusData(r, nowT) ==
    [lastCheck |-> nowT, status |-> r.status, statusCode |-> r.statusCode,
     responseTime |-> r.responseTime, timestamp |-> r.timestamp, error |-> r.error]

HistoryEntry(r, nowT) ==
    [timestamp |-> nowT, status |-> r.status, statusCode |-> r.statusCode,
     responseTime |-> r.responseTime, error |-> r.error]

\* mutant of SaveOne: the target's partitions of other months are removed
SaveOne_ThisMonthOnly(d, r, nowT, ym) ==
    LET key  == <<r.id, ym>>
        old  == IF key \in DOMAIN d.history THEN d.history[key] ELSE << >>
        kept == { k \in DOMAIN d.history : k[1] # r.id }
    IN [d EXCEPT !.status  = Put(@, r.id, StatusData(r, nowT)),
                 !.history = Put([k \in kept |-> d.history[k]], key,
                                 AppendCapped(old, HistoryEntry(r, nowT)))]

\* the body of results.forEach in saveResults, for one result
SaveOne(d, r, nowT, ym) ==
    LET key == <<r.id, ym>>
        old == IF key \in DOMAIN d.history THEN d.history[key] ELSE << >>
    IN [d EXCEPT !.status  = Put(@, r.id, StatusData(r, nowT)),
                 !.history = Put(@, key, AppendCapped(old, HistoryEntry(r, nowT)))]

RECURSIVE SaveAll(_, _, _, _)
SaveAll(d, rs, nowT, ym) ==
    IF rs = << >> THEN d ELSE SaveAll(SaveOne(d, Head(rs), nowT, ym), Tail(rs), nowT, ym)

RECURSIVE Badges(_, _)
Badges(b, rs) == IF rs = << >> THEN b ELSE Badges(Put(b, Head(rs).id, Head(rs).status), Tail(rs))

saveResults(d, rs, nowT, ym) ==
    LET d1 == SaveAll(d, rs, nowT, ym) IN [d1 EXCEPT !.badge = Badges(@, rs)]

EmptyDisk == [status |-> << >>, history |-> << >>, badge |-> << >>]

\* history variable: one more push for the partition of each result
RECURSIVE CountPushes(_, _, _)
CountPushes(n, rs, ym) ==
    IF rs = << >> THEN n
    ELSE LET k == <<Head(rs).id, ym>> IN
         CountPushes(Put(n, k, IF k \in DOMAIN n THEN n[k] + 1 ELSE 1), Tail(rs), ym)

(***************************************************************************)
(* Batch Runner: checkAllServices in index.js                              *)
(***************************************************************************)
\* config.services.map(checkUrl): map calls checkUrl(service, index, array),
\* so the parameter attempt receives the 0-based index of the target
MapAttempt(i) == i - 1

AllFulfilledP == \A i \in DOMAIN probes : probes[i].pc = "fulfilled"
AnyRejected   == \E i \in DOMAIN probes : probes[i].pc = "rejected"

\* mutant of PromiseAll: Promise.race, the first outcome alone
PromiseAll_Race(ps) == <<ps[1].result[1]>>

\* Promise.all keeps the order of its input
PromiseAll(ps) == [i \in DOMAIN ps |-> ps[i].result[1]]

Init ==
    /\ phase = "idle"
    /\ services = << >>
    /\ probes = << >>
    /\ results = << >>
    /\ now = None
    /\ disk = EmptyDisk
    /\ index = << >>
    /\ pages = {}
    /\ clock = 0
    /\ runs = 0
    /\ pushed = << >>
    /\ configFile = << >>
    /\ hist = << >>
    /\ view = << >>
    /\ issues = << >>
    /\ repo = << >>
    /\ twin = << >>

\* loadConfig at module scope, then main -> checkAllServices up to its await
Start ==
    /\ phase = "idle"
    /\ \E cfg \in Configs :
         /\ services' = cfg
         /\ probes' = [i \in DOMAIN cfg |-> checkUrl(cfg[i], MapAttempt(i), clock)]
    /\ phase' = "probing"
    /\ runs' = runs + 1
    /\ UNCHANGED <<results, now, disk, index, pages, clock, pushed>>
    /\ UNCHANGED aux

\* one attempt of one target's probe runs to its end. A rejection of Promise.all
\* is handled before any network event; the probes of the other targets go on
\* after it
Attempt(i) ==
    /\ \/ phase = "probing" /\ ~AnyRejected
       \/ phase = "failed"
    /\ probes[i].pc = "pending"
    /\ \E ev \in Events(services[i]) :
         probes' = [probes EXCEPT ![i] = checkUrlAttempt(services[i], @, ev)]
    /\ UNCHANGED <<phase, services, results, now, disk, index, pages, clock, runs, pushed>>
    /\ UNCHANGED aux

\* Promise.all rejects: checkAllServices throws, main().catch(console.error)
BatchRejected ==
    /\ phase = "probing"
    /\ AnyRejected
    /\ phase' = "failed"
    /\ UNCHANGED <<services, probes, results, now, disk, index, pages, clock, runs, pushed>>
    /\ UNCHANGED aux

\* Promise.all resolves: the rest of checkAllServices (save, cards, pages)
BatchFulfilled ==
    /\ phase = "probing"
    /\ AllFulfilledP
    /\ LET rs   == PromiseAll(probes)
           nowT == MaxOver([i \in DOMAIN probes |-> probes[i].t], Len(probes))
       IN /\ results' = rs
          /\ now' = Some(nowT)
          /\ disk' = saveResults(disk, rs, nowT, MonthOf(nowT))
          /\ pushed' = CountPushes(pushed, rs, MonthOf(nowT))
          /\ index' = [i \in DOMAIN rs |-> rs[i].id]
          /\ pages' = { services[i].id : i \in DOMAIN services }
    /\ phase' = "done"
    /\ UNCHANGED <<services, probes, clock, runs>>
    /\ UNCHANGED aux

Next ==
    \/ Start
    \/ \E i \in DOMAIN probes : Attempt(i)
    \/ BatchRejected
    \/ BatchFulfilled

Spec == Init /\ [][Next]_vars


(***************************************************************************)
(* getServiceHistory: lib/utils.js                                         *)
(***************************************************************************)
\* the months for which history/<YYYY-MM>.json of a target exists. The file
\* names are zero-padded, so their string order is the order of the months
HistoryFiles(d, id) == { k[2] : k \in { k \in DOMAIN d.history : k[1] = id } }

\* files.sort(): ascending
RECURSIVE SortAsc(_)
SortAsc(S) ==
    IF S = {} THEN << >>
    ELSE LET m == CHOOSE x \in S : \A y \in S : x <= y IN <<m>> \o SortAsc(S \ {m})

Reverse(q) == [i \in 1..Len(q) |-> q[Len(q) - i + 1]]

RECURSIVE FlatMap(_, _, _)
FlatMap(d, id, files) ==
    IF files = << >> THEN << >>
    ELSE d.history[<<id, Head(files)>>] \o FlatMap(d, id, Tail(files))

\* readdirSync(historyDir).filter(.json).sort().reverse(), then flatMap(read)
getServiceHistory(d, id) == FlatMap(d, id, Reverse(SortAsc(HistoryFiles(d, id))))

(***************************************************************************)
(* StoreSpec: process runs one after the other on the same data directory. *)
(* A run is one step: every probe of the batch is decided by its first     *)
(* attempt (or by the maintenance gate, or by a throw).                    *)
(***************************************************************************)
MaxRuns == HistoryCap + 2

StorePool == { s \in Pool : s.id \in {"web", "shop", "cache"} }

StoreConfigs ==
    UNION { { c \in [1..n -> StorePool] : \A i, j \in 1..n : c[i].id = c[j].id => i = j }
            : n \in 1..2 }

\* the first run starts with a month ahead, or two runs or one run before the
\* month ends
StartInstants == {0, MonthMs - 2 * Interval, MonthMs - Interval}

\* the ways the promise of checkUrl(svc, attempt) called at t0 settles without
\* a retry: at once (maintenance, throw) or by the event of its first attempt
OneShot(svc, attempt, t0) ==
    LET p0 == checkUrl(svc, attempt, t0) IN
    IF p0.pc # "pending" THEN {p0}
    ELSE { q \in { checkUrlAttempt(svc, p0, ev) : ev \in Events(svc) } :
             q.pc \in {"fulfilled", "rejected"} }

\* the arrays whose n first elements are drawn from shots[1], ..., shots[n]
RECURSIVE Prod(_, _)
Prod(shots, n) ==
    IF n = 0 THEN { << >> }
    ELSE { Append(ps, q) : ps \in Prod(shots, n - 1), q \in shots[n] }

\* the settled batches of cfg started at t0 whose probes needed no retry
Batches(cfg, t0) ==
    Prod([i \in DOMAIN cfg |-> OneShot(cfg[i], MapAttempt(i), t0)], Len(cfg))

StoreInit ==
    /\ phase = "idle"
    /\ services = << >>
    /\ probes = << >>
    /\ results = << >>
    /\ now = None
    /\ disk = EmptyDisk
    /\ index = << >>
    /\ pages = {}
    /\ clock \in StartInstants
    /\ runs = 0
    /\ pushed = << >>
    /\ configFile = << >>
    /\ hist = << >>
    /\ view = << >>
    /\ issues = << >>
    /\ repo = << >>
    /\ twin = << >>

\* a process run whose Promise.all resolves: checkAllServices to its end
RunCompleted ==
    /\ runs < MaxRuns
    /\ \E cfg \in StoreConfigs : \E ps \in Batches(cfg, clock) :
         /\ \A i \in DOMAIN ps : ps[i].pc = "fulfilled"
         /\ services' = cfg
         /\ probes' = ps
         /\ LET rs   == PromiseAll(ps)
                nowT == MaxOver([i \in DOMAIN ps |-> ps[i].t], Len(ps))
            IN /\ results' = rs
               /\ now' = Some(nowT)
               /\ disk' = saveResults(disk, rs, nowT, MonthOf(nowT))
               /\ pushed' = CountPushes(pushed, rs, MonthOf(nowT))
               /\ index' = [i \in DOMAIN rs |-> rs[i].id]
               /\ pages' = { cfg[i].id : i \in DOMAIN cfg }
    /\ phase' = "done"
    /\ clock' = clock + Interval
    /\ runs' = runs + 1
    /\ UNCHANGED aux

\* a process run whose Promise.all rejects: nothing is saved or rendered
RunFailed ==
    /\ runs < MaxRuns
    /\ \E cfg \in StoreConfigs : \E ps \in Batches(cfg, clock) :
         /\ \E i \in DOMAIN ps : ps[i].pc = "rejected"
         /\ services' = cfg
         /\ probes' = ps
    /\ phase' = "failed"
    /\ results' = << >>
    /\ now' = None
    /\ clock' = clock + Interval
    /\ runs' = runs + 1
    /\ UNCHANGED <<disk, index, pages, pushed>>
    /\ UNCHANGED aux

StoreNext == RunCompleted \/ RunFailed

StoreSpec == StoreInit /\ [][StoreNext]_vars

(***************************************************************************)
(* FaultSpec: StoreSpec with file operations of saveResults that throw.    *)
(* saveResults has no try/catch: a throw of mkdirSync, writeFileSync,      *)
(* readFileSync or JSON.parse ends results.forEach and checkAllServices.   *)
(***************************************************************************)
\* the file operations of one iteration of results.forEach, as two groups: up
\* to and including the write of status.json, and from there to the write of
\* history/<YYYY-MM>.json (mkdir, read, parse, write)
SaveSteps == {"status", "history"}

\* the data directory left by saveResults when an operation of group step
\* throws in the iteration of rs[j]: the iterations before it are complete,
\* status.json of rs[j] is written if the throw is in the history group, and
\* nothing after it is run (no badge)
SaveThrows(d, rs, nowT, ym, j, step) ==
    LET d1 == SaveAll(d, SubSeq(rs, 1, j - 1), nowT, ym)
    IN IF step = "status" THEN d1
       ELSE [d1 EXCEPT !.status = Put(@, rs[j].id, StatusData(rs[j], nowT))]

\* a process run whose Promise.all resolves and whose saveResults throws
RunSaveFails ==
    /\ runs < MaxRuns
    /\ \E cfg \in StoreConfigs : \E ps \in Batches(cfg, clock) :
         /\ \A i \in DOMAIN ps : ps[i].pc = "fulfilled"
         /\ services' = cfg
         /\ probes' = ps
         /\ LET rs   == PromiseAll(ps)
                nowT == MaxOver([i \in DOMAIN ps |-> ps[i].t], Len(ps))
            IN \E j \in DOMAIN rs : \E step \in SaveSteps :
                 /\ results' = rs
                 /\ now' = Some(nowT)
                 /\ disk' = SaveThrows(disk, rs, nowT, MonthOf(nowT), j, step)
                 /\ pushed' = CountPushes(pushed, SubSeq(rs, 1, j - 1), MonthOf(nowT))
    /\ phase' = "failed"
    /\ clock' = clock + Interval
    /\ runs' = runs + 1
    /\ UNCHANGED <<index, pages>>
    /\ UNCHANGED aux

FaultNext == RunCompleted \/ RunFailed \/ RunSaveFails

FaultSpec == StoreInit /\ [][FaultNext]_vars

(***************************************************************************)
(* Claims about the Probe Executor and the Batch Runner (Spec)             *)
(***************************************************************************)
Fulfilled(i) == probes[i].pc = "fulfilled"
Probed(i)    == Fulfilled(i) /\ probes[i].last # None
LastEv(i)    == probes[i].last[1]
Result(i)    == probes[i].result[1]

\* every probe of the run has settled
Settled ==
    /\ phase \in {"done", "failed"}
    /\ \A i \in DOMAIN probes : probes[i].pc \in {"fulfilled", "rejected"}

\* C1: every target of a batch, of every kind and at every position of the
\* list, is attempted at most RETRIES (3) times before its outcome is returned.
C1_AtMostThreeAttempts ==
    \A i \in DOMAIN probes : probes[i].calls <= RETRIES

\* C2: a target whose attempts all fail is declared down only after RETRIES (3)
\* failed attempts with RETRIES - 1 (2) retry delays between them, and the
\* error reported is that of the final attempt.
C2_DownAfterThreeFailures ==
    \A i \in DOMAIN probes :
        (Probed(i) /\ Failed(LastEv(i))) =>
            /\ Result(i).status = "down"
            /\ probes[i].calls = RETRIES
            /\ probes[i].delays = RETRIES - 1
            /\ Result(i).error = Some(ErrorMessage(services[i], LastEv(i)))

\* C3: a target under maintenance is never probed (no HTTP, TCP or DNS call);
\* its outcome is status maintenance, responseTime 0, statusCode null, error
\* null, with the reason in the field maintenance; the snapshot and the history
\* entry written for it have no field for the reason and a null error.
C3_MaintenanceGate ==
    \A i \in DOMAIN probes :
        services[i].maintenance # None =>
            /\ probes[i].calls = 0
            /\ probes[i].pc = "fulfilled"
            /\ Result(i).status = "maintenance"
            /\ Result(i).responseTime = 0
            /\ Result(i).statusCode = None
            /\ Result(i).error = None
            /\ Result(i).maintenance = services[i].maintenance
            /\ phase = "done" =>
                 LET id == services[i].id
                     h  == disk.history[<<id, MonthOf(now[1])>>]
                 IN /\ DOMAIN disk.status[id] =
                         {"lastCheck", "status", "statusCode", "responseTime",
                          "timestamp", "error"}
                    /\ disk.status[id].status = "maintenance"
                    /\ disk.status[id].error = None
                    /\ DOMAIN h[Len(h)] =
                         {"timestamp", "status", "statusCode", "responseTime", "error"}
                    /\ h[Len(h)].status = "maintenance"
                    /\ h[Len(h)].error = None

C3_Witness ==
    /\ phase = "done"
    /\ Len(services) >= 2
    /\ \E i \in DOMAIN services : services[i].maintenance # None
    /\ \E i \in DOMAIN services : probes[i].calls > 0

\* C4: an HTTP probe that ends with a response is up if and only if the
\* response's status code equals the expected status; the expected code on the
\* first attempt gives up after one call and no retry delay.
C4_ExactStatusMatch ==
    \A i \in DOMAIN probes :
        (Probed(i) /\ services[i].type = "http" /\ LastEv(i).kind = "response") =>
            /\ Result(i).status \in {"up", "down"}
            /\ Result(i).status = "up" <=> LastEv(i).code = services[i].expectedStatus
            /\ Result(i).statusCode = LastEv(i).code
            /\ (probes[i].calls = 1 /\ LastEv(i).code = services[i].expectedStatus) =>
                 (Result(i).status = "up" /\ probes[i].delays = 0)

C4_Witness ==
    \E i \in DOMAIN probes :
        /\ Probed(i) /\ services[i].type = "http"
        /\ probes[i].calls = 1 /\ probes[i].delays = 0
        /\ LastEv(i) = Ev("response", Some(200))
        /\ Result(i).status = "up"

\* C5: a response whose status code does not match is retried: down is
\* reported for a mismatch only by an attempt that has no retry left.
C5_MismatchIsRetried ==
    \A i \in DOMAIN probes :
        (Probed(i) /\ LastEv(i).kind = "response" /\ Result(i).status = "down") =>
            ~ShouldRetry(probes[i].attempt)

\* C6: the promise of checkUrl never rejects for a timeout, a refused
\* connection, a DNS failure or a non-matching status, for any kind of target:
\* a probe that ends on one of these returns an outcome with status down.
C6_FailuresBecomeDown ==
    \A i \in DOMAIN probes :
        ~ConnectThrows(services[i]) =>
            /\ probes[i].pc # "rejected"
            /\ (Probed(i) /\ (Failed(LastEv(i)) \/
                               (LastEv(i).kind = "response" /\
                                LastEv(i).code # services[i].expectedStatus))) =>
                 (Result(i).status = "down" /\ Result(i).id = services[i].id)

C6_Witness ==
    /\ \E i \in DOMAIN probes :
         services[i].type = "http" /\ Probed(i) /\ LastEv(i).kind = "timeout"
    /\ \E i \in DOMAIN probes :
         services[i].type = "tcp" /\ Probed(i) /\ LastEv(i).kind = "error"
    /\ \E i \in DOMAIN probes :
         services[i].type = "dns" /\ Probed(i) /\ LastEv(i).kind = "error"

\* C7: a probe whose promise rejects does not prevent the outcomes of the other
\* targets from being saved and rendered: once the run has ended every target
\* with an outcome has its snapshot, its badge, its card and its page.
C7_FaultIsolated ==
    Settled =>
        \A i \in DOMAIN probes :
            Fulfilled(i) =>
                /\ services[i].id \in DOMAIN disk.status
                /\ services[i].id \in DOMAIN disk.badge
                /\ services[i].id \in pages
                /\ \E k \in DOMAIN index : index[k] = services[i].id

\* C8: whenever checkAllServices saves and renders, the result list holds
\* exactly one outcome per configured target, in configuration order, with the
\* target's id; nothing is written by a run whose batch is not complete.
C8_CompleteBatch ==
    /\ phase = "done" =>
         /\ Len(results) = Len(services)
         /\ \A i \in DOMAIN services :
              results[i].id = services[i].id /\ results[i] = Result(i)
         /\ DOMAIN disk.status = { services[i].id : i \in DOMAIN services }
    /\ phase # "done" => (disk = EmptyDisk /\ index = << >> /\ pages = {})

C8_Witness ==
    /\ phase = "done"
    /\ Len(services) = MaxServices
    /\ \E i, j \in DOMAIN results : results[i].status = "up" /\ results[j].status = "down"


(***************************************************************************)
(* Claims about the History Store (StoreSpec)                              *)
(***************************************************************************)
Sorted(h) == \A i, j \in 1..Len(h) : i <= j => h[i].timestamp <= h[j].timestamp

TargetsOnDisk == { k[1] : k \in DOMAIN disk.history }

\* C9: after any sequence of batch runs every monthly partition holds at most
\* HistoryCap (4320) entries; a run that saves an outcome of a target appends
\* one entry, stamped with the run's instant, to the target's partition of the
\* month; an append to a full partition drops its oldest entry and keeps the
\* others in their order; every other partition is left as it was.
C9_CapKeepsNewest ==
    /\ [](\A k \in DOMAIN disk.history : Len(disk.history[k]) <= HistoryCap)
    /\ [][\A k \in DOMAIN disk'.history :
            LET new == disk'.history[k]
                old == IF k \in DOMAIN disk.history THEN disk.history[k] ELSE << >>
                e   == new[Len(new)]
                written == /\ phase' = "done"
                           /\ k[2] = MonthOf(now'[1])
                           /\ \E i \in DOMAIN results' : results'[i].id = k[1]
            IN IF written
               THEN /\ e.timestamp = now'[1]
                    /\ \/ Len(old) < HistoryCap /\ new = old \o <<e>>
                       \/ Len(old) = HistoryCap /\ new = SubSeq(old, 2, HistoryCap) \o <<e>>
               ELSE new = old]_vars

\* a partition that was pushed to more often than it can hold
C9_Witness ==
    \E k \in DOMAIN disk.history :
        /\ pushed[k] > HistoryCap
        /\ Len(disk.history[k]) = HistoryCap
        /\ disk.history[k][HistoryCap].timestamp = now[1]

\* C10: getServiceHistory returns the partitions of a target oldest first, so
\* the sequence it returns is in non-decreasing timestamp order.
C10_ReadAllChronological ==
    \A id \in TargetsOnDisk : Sorted(getServiceHistory(disk, id))

\* the history entry that holds the fields of outcome r, its timestamp included
EntryOf(r) ==
    [timestamp |-> r.timestamp, status |-> r.status, statusCode |-> r.statusCode,
     responseTime |-> r.responseTime, error |-> r.error]

\* C11: each outcome of a run is appended to the partition of the calendar
\* month of the outcome's own timestamp, created when absent, and to no
\* partition of another month (Spec: the data directory starts empty, so every
\* partition on it was created by the run).
C11_FiledUnderOwnMonth ==
    phase = "done" =>
        \A i \in DOMAIN results :
            /\ <<results[i].id, MonthOf(results[i].timestamp)>> \in DOMAIN disk.history
            /\ \A k \in DOMAIN disk.history :
                 k[1] = results[i].id => k[2] = MonthOf(results[i].timestamp)

\* C12: an outcome saved by a run and read back through getServiceHistory for
\* its target yields an entry with the outcome's status, statusCode,
\* responseTime, error and timestamp.
C12_RoundTrip ==
    phase = "done" =>
        \A i \in DOMAIN results :
            LET h == getServiceHistory(disk, results[i].id)
            IN \E j \in DOMAIN h : h[j] = EntryOf(results[i])

\* the last entry of the partition of target id for the month of instant t
LastEntry(id, t) ==
    LET h == disk.history[<<id, MonthOf(t)>>] IN h[Len(h)]

\* C13: the snapshot and the history append of a target are applied together,
\* also when a file operation of saveResults throws: every snapshot on disk has
\* its entry (same instant, same outcome) at the end of the partition of its
\* month, and no partition ends with an entry newer than the snapshot.
C13_SnapshotWithEntry ==
    /\ \A id \in DOMAIN disk.status :
         LET s == disk.status[id] IN
         /\ <<id, MonthOf(s.lastCheck)>> \in DOMAIN disk.history
         /\ LastEntry(id, s.lastCheck) =
              [timestamp |-> s.lastCheck, status |-> s.status, statusCode |-> s.statusCode,
               responseTime |-> s.responseTime, error |-> s.error]
    /\ \A k \in DOMAIN disk.history :
         /\ k[1] \in DOMAIN disk.status
         /\ disk.history[k][Len(disk.history[k])].timestamp <= disk.status[k[1]].lastCheck

\* C14: after a completed run the snapshot of each target of the run has the
\* status, statusCode, responseTime and error of the last entry of the
\* target's partition of the current month, and its lastCheck is that entry's
\* timestamp.
C14_SnapshotIsLastEntry ==
    phase = "done" =>
        \A i \in DOMAIN services :
            LET s == disk.status[services[i].id]
                e == LastEntry(services[i].id, now[1])
            IN /\ s.status = e.status
               /\ s.statusCode = e.statusCode
               /\ s.responseTime = e.responseTime
               /\ s.error = e.error
               /\ s.lastCheck = e.timestamp

\* a completed run of two targets, one whose outcome is older than the run's
\* instant, that appended to a partition already holding entries
C14_Witness ==
    /\ phase = "done"
    /\ Len(services) = 2
    /\ \E i \in DOMAIN results : results[i].timestamp < now[1]
    /\ \E i \in DOMAIN results :
         Len(disk.history[<<results[i].id, MonthOf(now[1])>>]) = HistoryCap

\* the outcome results[i] of the last run is on disk: snapshot and entry
Persisted(i) ==
    LET id == results[i].id IN
    /\ id \in DOMAIN disk.status
    /\ disk.status[id].lastCheck = now[1]
    /\ <<id, MonthOf(now[1])>> \in DOMAIN disk.history
    /\ LastEntry(id, now[1]).timestamp = now[1]

\* C15: a file operation of saveResults that throws for one target does not
\* abort the batch: of the outcomes Promise.all resolved to, all but at most
\* one are persisted, and every one has its badge, its card and its page.
C15_StorageFaultIsolated ==
    results # << >> =>
        /\ Cardinality({ i \in DOMAIN results : ~Persisted(i) }) <= 1
        /\ index = [i \in DOMAIN results |-> results[i].id]
        /\ \A i \in DOMAIN results :
             /\ results[i].id \in pages
             /\ results[i].id \in DOMAIN disk.badge
             /\ disk.badge[results[i].id] = results[i].status

(***************************************************************************)
(* Claims about the configuration (Spec)                                   *)
(***************************************************************************)
\* a target without a field its kind requires. The descriptors of Pool carry
\* the port only: host, url and domain are not looked at by the model's probes
LacksRequired(svc) == svc.type = "tcp" /\ svc.port = None

\* C16: a configuration with a target that lacks a required field fails the
\* run before any probe is started (no attempt made, none in flight) and
\* nothing is written in that run.
C16_ConfigFailureIsFatal ==
    (\E i \in DOMAIN services : LacksRequired(services[i])) =>
        /\ \A j \in DOMAIN probes : probes[j].calls = 0 /\ probes[j].pc # "pending"
        /\ disk = EmptyDisk
        /\ index = << >>
        /\ pages = {}

(***************************************************************************)
(* ConfigSpec: loadConfig and normalizeService in index.js. A configuration *)
(* file is its format and the list of checks its parser returned; a field  *)
(* that is not given is << >>. A string that the code transforms (name,    *)
(* id) is a sequence of characters.                                        *)
(***************************************************************************)
MaxNameLen == 2

Chars == {"A", "a", "b", " "}

Names == UNION { [1..n -> Chars] : n \in 1..MaxNameLen }

\* String.prototype.toLowerCase, character by character
ToLower(c) == IF c = "A" THEN "a" ELSE c

\* the class [a-z0-9] of the pattern
IsSlugChar(c) == c \in {"a", "b", "0", "1"}

\* replace(/[^a-z0-9]+/g, '-'): each maximal run of other characters is one '-'
RECURSIVE ReplaceRuns(_, _)
ReplaceRuns(str, inRun) ==
    IF str = << >> THEN << >>
    ELSE IF IsSlugChar(Head(str)) THEN <<Head(str)>> \o ReplaceRuns(Tail(str), FALSE)
    ELSE IF inRun THEN ReplaceRuns(Tail(str), TRUE)
    ELSE <<"-">> \o ReplaceRuns(Tail(str), TRUE)

\* check.name.toLowerCase().replace(/[^a-z0-9]+/g, '-')
GenerateId(name) == ReplaceRuns([i \in 1..Len(name) |-> ToLower(name[i])], FALSE)

\* a || b for numbers: 0 and undefined are falsy
OrNum(a, b) == IF a # None /\ a[1] # 0 THEN a[1] ELSE b

\* a || b for non-empty strings
OrStr(a, b) == IF a # None THEN a[1] ELSE b

\* a check with no field given
Omitted ==
    [name |-> None, id |-> None, type |-> None, timeout |-> None, maintenance |-> None,
     url |-> None, method |-> None, expectedStatus |-> None, expected |-> None,
     host |-> None, port |-> None, domain |-> None]

\* the checks a configuration file can list: HTTP checks that differ in name
\* and id, HTTP checks that differ in the optional fields, TCP and DNS checks
RawChecks ==
    { [Omitted EXCEPT !.name = n, !.id = i, !.url = Some("https://a")] :
        n \in {None} \cup { Some(x) : x \in Names },
        i \in {None, Some(<<"a">>)} }
    \cup
    { [Omitted EXCEPT !.name = Some(<<"b">>), !.url = u, !.method = m,
                      !.expectedStatus = es, !.expected = e, !.timeout = t] :
        u \in {None, Some("https://b")}, m \in {None, Some("POST")},
        es \in {None, Some(204)}, e \in {None, Some(201)},
        t \in {None, Some(0), Some(5000)} }
    \cup
    { [Omitted EXCEPT !.name = Some(<<"b">>), !.type = Some("tcp"),
                      !.host = h, !.port = q] :
        h \in {None, Some("db")}, q \in {None, Some(5432)} }
    \cup
    { [Omitted EXCEPT !.name = Some(<<"b">>), !.type = Some("dns"), !.domain = dm] :
        dm \in {None, Some("example.com")} }

\* config.yml when it exists, config.json otherwise
ConfigFiles ==
    { [format |-> f, checks |-> c] :
        f \in {"yml", "json"},
        c \in UNION { [1..n -> RawChecks] : n \in 1..2 } }

\* check.name.toLowerCase() on a check without name (and without id) throws
normalizeThrows(check) == check.id = None /\ check.name = None

normalizeService(check) ==
    LET baseConfig ==
            [Omitted EXCEPT
                !.id = IF check.id # None THEN check.id
                       ELSE Some(GenerateId(check.name[1])),
                !.name = check.name,
                !.type = Some(OrStr(check.type, "http")),
                !.timeout = Some(OrNum(check.timeout, DEFAULT_TIMEOUT)),
                !.maintenance = check.maintenance]
    IN IF check.type = Some("tcp")
       THEN [baseConfig EXCEPT !.host = check.host, !.port = check.port]
       ELSE IF check.type = Some("dns")
       THEN [baseConfig EXCEPT !.domain = check.domain]
       ELSE [baseConfig EXCEPT
                !.url = check.url,
                !.method = Some(OrStr(check.method, "GET")),
                !.expectedStatus =
                    Some(OrNum(check.expectedStatus, OrNum(check.expected, DEFAULT_EXPECTED)))]

loadThrows(file) ==
    file.format = "yml" /\ \E i \in DOMAIN file.checks : normalizeThrows(file.checks[i])

\* config.services: the checks normalized (config.yml), or as JSON.parse
\* returned them (config.json)
loadConfig(file) ==
    IF file.format = "yml"
    THEN [i \in DOMAIN file.checks |-> normalizeService(file.checks[i])]
    ELSE file.checks

ConfigInit ==
    /\ phase = "idle"
    /\ services = << >>
    /\ probes = << >>
    /\ results = << >>
    /\ now = None
    /\ disk = EmptyDisk
    /\ index = << >>
    /\ pages = {}
    /\ clock = 0
    /\ runs = 0
    /\ pushed = << >>
    /\ configFile \in { Some(f) : f \in ConfigFiles }
    /\ hist = << >>
    /\ view = << >>
    /\ issues = << >>
    /\ repo = << >>
    /\ twin = << >>

\* const config = loadConfig() returns
LoadConfig ==
    /\ phase = "idle"
    /\ ~loadThrows(configFile[1])
    /\ services' = loadConfig(configFile[1])
    /\ phase' = "loaded"
    /\ UNCHANGED <<probes, results, now, disk, index, pages, clock, runs, pushed>>
    /\ UNCHANGED aux

\* const config = loadConfig() throws: the process ends before main()
LoadConfigThrows ==
    /\ phase = "idle"
    /\ loadThrows(configFile[1])
    /\ phase' = "failed"
    /\ UNCHANGED <<services, probes, results, now, disk, index, pages, clock, runs, pushed>>
    /\ UNCHANGED aux

ConfigNext == LoadConfig \/ LoadConfigThrows

ConfigSpec == ConfigInit /\ [][ConfigNext]_vars

\* C17: after config loading no two targets of the batch have the same id,
\* whether the id was given or derived from the name.
C17_UniqueIds ==
    phase = "loaded" =>
        \A i, j \in DOMAIN services : services[i].id = services[j].id => i = j

\* checkUrl probes every target whose type is neither tcp nor dns over HTTP
IsHttp(svc) == svc.type \notin {Some("tcp"), Some("dns")}

\* C18: for every HTTP target handed over by the config loader, from
\* config.yml or config.json, an omitted method, expected status or timeout
\* has been defaulted to GET, 200 and 10000 ms.
C18_DefaultsApplied ==
    phase = "loaded" =>
        \A i \in DOMAIN services :
            LET check == configFile[1].checks[i] IN
            IsHttp(services[i]) =>
                /\ check.method = None => services[i].method = Some("GET")
                /\ (check.expectedStatus = None /\ check.expected = None) =>
                     services[i].expectedStatus = Some(DEFAULT_EXPECTED)
                /\ check.timeout = None => services[i].timeout = Some(DEFAULT_TIMEOUT)

(***************************************************************************)
(* MetricsSpec: the metrics generateServiceCard and generateServicePages   *)
(* compute from the array getServiceHistory returned, for every array of   *)
(* at most MaxHistLen entries.                                             *)
(*                                                                         *)
(* A decimal is [digits, units], the number units / 10^digits: "62.5" is   *)
(* [digits |-> 1, units |-> 625], the number 100 is [digits |-> 0,         *)
(* units |-> 100].                                                         *)
(***************************************************************************)
MaxHistLen == 10

Statuses == {"up", "down", "maintenance"}

\* the i-th entry of a history, with status st
MetricEntry(i, st) ==
    [timestamp |-> i * Interval, status |-> st, statusCode |-> None,
     responseTime |-> IF st = "maintenance" THEN 0 ELSE FastMs, error |-> None]

\* the history whose entries have the statuses f[1], ..., f[n]
History(f, n) == [i \in 1..n |-> MetricEntry(i, f[i])]

RECURSIVE Pow10(_)
Pow10(d) == IF d = 0 THEN 1 ELSE 10 * Pow10(d - 1)

\* (num / den).toFixed(d): the d-digit decimal nearest to num / den, the larger
\* one on a tie. The quotient is taken exactly; the double the code computes
\* rounds the same way except next to a tie, and a tie needs a divisor that is
\* a multiple of 16, more than the entries a history of the model has
ToFixed(num, den, d) ==
    [digits |-> d, units |-> (2 * num * Pow10(d) + den) \div (2 * den)]

IsUp(e) == e.status = "up"

IsActive(e) == e.status # "maintenance"

\* mutant of ActiveHistory: the maintenance entries are not filtered out
ActiveHistory_All(allHistory) == allHistory

\* allHistory.filter(h => h.status !== 'maintenance')
ActiveHistory(allHistory) == SelectSeq(allHistory, IsActive)

\* activeHistory.filter(h => h.status === 'up').length
UptimeCount(allHistory) == Len(SelectSeq(ActiveHistory(allHistory), IsUp))

\* activeHistory.length > 0 ? (uptimeCount / activeHistory.length * 100).toFixed(d) : 100
Uptime(allHistory, d) ==
    IF Len(ActiveHistory(allHistory)) > 0
    THEN ToFixed(UptimeCount(allHistory) * 100, Len(ActiveHistory(allHistory)), d)
    ELSE [digits |-> 0, units |-> 100]

\* uptime of generateServiceCard
CardUptime(allHistory) == Uptime(allHistory, 1)

\* uptime of generateServicePages
PageUptime(allHistory) == Uptime(allHistory, 2)

MetricsInit ==
    /\ phase = "idle"
    /\ services = << >>
    /\ probes = << >>
    /\ results = << >>
    /\ now = None
    /\ disk = EmptyDisk
    /\ index = << >>
    /\ pages = {}
    /\ clock = 0
    /\ runs = 0
    /\ pushed = << >>
    /\ configFile = << >>
    /\ \E n \in 0..MaxHistLen : \E f \in [1..n -> Statuses] : hist = History(f, n)
    /\ view = << >>
    /\ issues = << >>
    /\ repo = << >>
    /\ twin = << >>

\* the metrics of the card and of the page are computed from hist
RenderMetrics ==
    /\ view = None
    /\ view' = Some([cardUptime |-> CardUptime(hist), pageUptime |-> PageUptime(hist)])
    /\ UNCHANGED <<phase, services, probes, results, now, disk, index, pages, clock, runs,
                   pushed, configFile, hist, issues, repo, twin>>

MetricsNext == RenderMetrics

MetricsSpec == MetricsInit /\ [][MetricsNext]_vars

(***************************************************************************)
(* Claims about the metrics (MetricsSpec, StoreSpec)                       *)
(***************************************************************************)
CountUp     == Cardinality({ i \in DOMAIN hist : hist[i].status = "up" })
CountActive == Cardinality({ i \in DOMAIN hist : hist[i].status # "maintenance" })

\* the decimal dec is the number num / den
IsExactly(dec, num, den) == dec.units * den = num * Pow10(dec.digits)

\* the decimal dec is within half a unit of its last digit of num / den
IsNearest(dec, num, den) ==
    LET diff == dec.units * den - num * Pow10(dec.digits)
    IN 2 * (IF diff >= 0 THEN diff ELSE -diff) <= den

\* C19 as stated: the uptime of a history equals count(up) / count(entries
\* that are not maintenance) x 100, and 100 when no entry is not maintenance.
C19_UptimeExact ==
    view # None =>
        /\ CountActive > 0 =>
             /\ IsExactly(view[1].cardUptime, 100 * CountUp, CountActive)
             /\ IsExactly(view[1].pageUptime, 100 * CountUp, CountActive)
        /\ CountActive = 0 =>
             /\ IsExactly(view[1].cardUptime, 100, 1)
             /\ IsExactly(view[1].pageUptime, 100, 1)

\* C19 amended: the uptime of a history is count(up) / count(entries that are
\* not maintenance) x 100 rounded to one decimal on the dashboard card and to
\* two decimals on the service page, maintenance entries excluded from both
\* counts, and is 100 when no entry is not maintenance.
C19_UptimeRounded ==
    view # None =>
        /\ CountActive > 0 =>
             /\ view[1].cardUptime.digits = 1
             /\ IsNearest(view[1].cardUptime, 100 * CountUp, CountActive)
             /\ view[1].pageUptime.digits = 2
             /\ IsNearest(view[1].pageUptime, 100 * CountUp, CountActive)
        /\ CountActive = 0 =>
             /\ IsExactly(view[1].cardUptime, 100, 1)
             /\ IsExactly(view[1].pageUptime, 100, 1)

\* 5 up, 3 down, 2 maintenance: 62.5
C19_Witness ==
    /\ view # None
    /\ CountUp = 5
    /\ CountActive = 8
    /\ Len(hist) = 10
    /\ view[1].cardUptime = [digits |-> 1, units |-> 625]
    /\ view[1].pageUptime = [digits |-> 2, units |-> 6250]

\* allHistory.find(s => s.status === 'down'): the first down entry of the
\* array, << >> (undefined) when it has none
FindDown(allHistory) ==
    IF \E i \in DOMAIN allHistory : allHistory[i].status = "down"
    THEN Some(allHistory[CHOOSE i \in DOMAIN allHistory :
                  /\ allHistory[i].status = "down"
                  /\ \A j \in 1..(i - 1) : allHistory[j].status # "down"])
    ELSE None

\* lastIncident of generateServicePages for target id
LastIncident(d, id) == FindDown(getServiceHistory(d, id))

\* C20: the last incident shown on the page of a target is the down entry
\* with the latest timestamp of the target's whole history (StoreSpec: the
\* pages are written by every completed run for the targets of the run).
C20_LastIncidentIsLatest ==
    phase = "done" =>
        \A i \in DOMAIN services :
            LET h == getServiceHistory(disk, services[i].id)
            IN (\E k \in DOMAIN h : h[k].status = "down") =>
                 /\ LastIncident(disk, services[i].id) # None
                 /\ \A k \in DOMAIN h :
                      h[k].status = "down" =>
                        h[k].timestamp <= LastIncident(disk, services[i].id)[1].timestamp

(***************************************************************************)
(* TrendSpec: calculateTrend (lib/utils.js) on a history made of up to     *)
(* three blocks of equal entries and on the latency of the current         *)
(* outcome. The arrows are named: "worse" is the arrow up, "better" the    *)
(* arrow down, "flat" the arrow to the right.                              *)
(***************************************************************************)
MaxBlock == 5

TREND_MIN     == 5
TREND_WINDOW  == 10
TREND_PERCENT == 15

Latencies == {100, 200}

EntryKinds ==
    { [status |-> "up", responseTime |-> l] : l \in Latencies }
    \cup { [status |-> "down", responseTime |-> 1000],
           [status |-> "maintenance", responseTime |-> 0] }

\* the latencies of the current outcome: around 85% and 115% of the means
Currents == {0, 84, 85, 86, 100, 114, 115, 116, 127, 128, 170, 172, 173, 230, 231}

Repeat(k, n) == [i \in 1..n |-> k]

\* the history whose i-th entry has the status and the latency of kinds[i]
Stamp(kinds) ==
    [i \in 1..Len(kinds) |->
        [timestamp |-> i * Interval, status |-> kinds[i].status, statusCode |-> None,
         responseTime |-> kinds[i].responseTime, error |-> None]]

\* the outcome of the current run, as far as the trend looks at it
CurrentResult(cur) ==
    [id |-> "web", status |-> "up", statusCode |-> Some(DEFAULT_EXPECTED),
     responseTime |-> cur, timestamp |-> 0, error |-> None, maintenance |-> None]

\* reduce((sum, h) => sum + h.responseTime, 0)
RECURSIVE SumTimes(_)
SumTimes(h) == IF h = << >> THEN 0 ELSE Head(h).responseTime + SumTimes(Tail(h))

\* mutant of RecentChecks: the entries are not filtered by status
RecentChecks_All(history) == SliceLast(history, TREND_WINDOW)

\* history.filter(h => h.status === 'up').slice(-10)
RecentChecks(history) == SliceLast(SelectSeq(history, IsUp), TREND_WINDOW)

\* mutant of IsWorse: a deviation of exactly 15% counts
IsWorse_Inclusive(currentTime, sum, n) ==
    100 * (currentTime * n - sum) >= TREND_PERCENT * sum

\* diff > threshold, with avgRecent = sum / n, diff = currentTime - avgRecent
\* and threshold = avgRecent * 0.15, both sides multiplied by 100 * n. The
\* doubles of the code give the same answer for integer latencies
IsWorse(currentTime, sum, n) ==
    100 * (currentTime * n - sum) > TREND_PERCENT * sum

\* diff < -threshold
IsBetter(currentTime, sum, n) ==
    100 * (currentTime * n - sum) < -(TREND_PERCENT * sum)

calculateTrend(history, currentTime) ==
    IF Len(history) < TREND_MIN THEN "flat"
    ELSE LET recentChecks == RecentChecks(history) IN
         IF Len(recentChecks) < TREND_MIN THEN "flat"
         ELSE IF IsWorse(currentTime, SumTimes(recentChecks), Len(recentChecks)) THEN "worse"
         ELSE IF IsBetter(currentTime, SumTimes(recentChecks), Len(recentChecks)) THEN "better"
         ELSE "flat"

TrendInit ==
    /\ phase = "idle"
    /\ services = << >>
    /\ probes = << >>
    /\ \E cur \in Currents : results = <<CurrentResult(cur)>>
    /\ now = None
    /\ disk = EmptyDisk
    /\ index = << >>
    /\ pages = {}
    /\ clock = 0
    /\ runs = 0
    /\ pushed = << >>
    /\ configFile = << >>
    /\ \E k1, k2, k3 \in EntryKinds : \E n1, n2, n3 \in 0..MaxBlock :
         hist = Stamp(Repeat(k1, n1) \o Repeat(k2, n2) \o Repeat(k3, n3))
    /\ view = << >>
    /\ issues = << >>
    /\ repo = << >>
    /\ twin = << >>

\* const trend = calculateTrend(allHistory, checkResult.responseTime)
RenderTrend ==
    /\ view = None
    /\ view' = Some([trend |-> calculateTrend(hist, results[1].responseTime)])
    /\ UNCHANGED <<phase, services, probes, results, now, disk, index, pages, clock, runs,
                   pushed, configFile, hist, issues, repo, twin>>

TrendNext == RenderTrend

TrendSpec == TrendInit /\ [][TrendNext]_vars

(***************************************************************************)
(* Claims about the trend (TrendSpec)                                      *)
(***************************************************************************)
UpIdx == { i \in DOMAIN hist : hist[i].status = "up" }

\* the up entries that qualify: the last TREND_WINDOW of them
Qualifying == { i \in UpIdx : Cardinality({ j \in UpIdx : j > i }) < TREND_WINDOW }

RECURSIVE SumOver(_)
SumOver(S) ==
    IF S = {} THEN 0
    ELSE LET i == CHOOSE x \in S : TRUE IN hist[i].responseTime + SumOver(S \ {i})

\* C21: with at least 5 qualifying up entries of mean latency avg, the trend
\* is worse iff current > 1.15 x avg, better iff current < 0.85 x avg, and flat
\* otherwise; a deviation of exactly 15% is flat. (avg = sum / n; the
\* comparisons are multiplied by 100 x n.)
C21_TrendThresholds ==
    (view # None /\ Cardinality(Qualifying) >= TREND_MIN) =>
        LET n   == Cardinality(Qualifying)
            sum == SumOver(Qualifying)
            cur == results[1].responseTime
        IN /\ view[1].trend = "worse"  <=> 100 * cur * n > 115 * sum
           /\ view[1].trend = "better" <=> 100 * cur * n < 85 * sum
           /\ view[1].trend = "flat"   <=> (100 * cur * n <= 115 * sum /\
                                            100 * cur * n >= 85 * sum)

\* more than 10 up entries, the last 10 of mean 100, and a current latency of
\* exactly 115
C21_Witness ==
    /\ view # None
    /\ Cardinality(UpIdx) > TREND_WINDOW
    /\ SumOver(UpIdx) > SumOver(Qualifying)
    /\ SumOver(Qualifying) = 1000
    /\ results[1].responseTime = 115
    /\ view[1].trend = "flat"

\* C22: the trend is flat whenever fewer than 5 up entries qualify, whatever
\* the latencies; entries that are down or maintenance never enter the
\* baseline: the trend is that of the history without them.
C22_FlatBelowFive ==
    view # None =>
        /\ Cardinality(UpIdx) < TREND_MIN => view[1].trend = "flat"
        /\ view[1].trend = calculateTrend(SelectSeq(hist, IsUp), results[1].responseTime)

\* four up entries among ten entries, a current latency far above them
C22_Witness ==
    /\ view # None
    /\ Cardinality(UpIdx) = TREND_MIN - 1
    /\ Len(hist) = 10
    /\ \E i \in DOMAIN hist : hist[i].status = "down"
    /\ results[1].responseTime = 231
    /\ view[1].trend = "flat"

(***************************************************************************)
(* BarSpec: generateHistoryBar (index.js). The four periods differ in the  *)
(* number of buckets (24, 72, 30, 60) and in their width (hour, day): the  *)
(* model has BarUnits buckets of BucketMs. The key of a bucket is the      *)
(* number of the hour or day, the status '' of an empty bucket is "".      *)
(***************************************************************************)
BarUnits  == 3      \* stands for units (scaled)
BucketMs  == 1000   \* width of a bucket (scaled)
MaxUp     == 19     \* most up entries in the bucket that is filled
MaxOther  == 2      \* most down entries, and most maintenance entries, in it

\* entryDate.toISOString() cut at the hour or at the day
KeyOf(t) == t \div BucketMs

\* a history of n entries of status st whose timestamps lie in the bucket of
\* the given key, from its offset-th millisecond on
Block(st, n, key, offset) ==
    [i \in 1..n |->
        [timestamp |-> key * BucketMs + offset + i, status |-> st, statusCode |-> None,
         responseTime |-> IF st = "maintenance" THEN 0 ELSE FastMs, error |-> None]]

\* historyMap.get(key): the entries of the bucket, in the order of the history
PeriodData(history, key) ==
    SelectSeq(history, LAMBDA e : KeyOf(e.timestamp) = key)

\* mutant of ActiveChecks: the maintenance entries are not filtered out
ActiveChecks_All(periodData) == periodData

\* periodData.filter(d => d.status !== 'maintenance')
ActiveChecks(periodData) == SelectSeq(periodData, IsActive)

\* the status of one bar, from `let status = ''` to the push
BucketStatus(periodData) ==
    IF periodData = << >> THEN ""
    ELSE IF Len(SelectSeq(periodData, LAMBDA d : d.status = "maintenance")) = Len(periodData)
    THEN "maintenance"
    ELSE LET activeChecks == ActiveChecks(periodData)
             upCount      == Len(SelectSeq(activeChecks, IsUp))
         IN IF Len(activeChecks) > 0
            THEN (IF ToFixed(upCount * 100, Len(activeChecks), 0).units >= 95
                  THEN "up" ELSE "down")
            ELSE ""

\* the statuses of the bars, the oldest first (i = units - 1 down to 0)
generateHistoryBar(history, nowT) ==
    [j \in 1..BarUnits |-> BucketStatus(PeriodData(history, KeyOf(nowT) - (BarUnits - j)))]

\* the instant at which the bar is generated
BarNow == (BarUnits + 1) * BucketMs + BucketMs \div 2

BarInit ==
    /\ phase = "idle"
    /\ services = << >>
    /\ probes = << >>
    /\ results = << >>
    /\ now = Some(BarNow)
    /\ disk = EmptyDisk
    /\ index = << >>
    /\ pages = {}
    /\ clock = 0
    /\ runs = 0
    /\ pushed = << >>
    /\ configFile = << >>
    /\ \E age \in 0..BarUnits : \E nu \in 0..MaxUp : \E nd, nm \in 0..MaxOther :
       \E age2 \in 0..BarUnits : \E st2 \in Statuses : \E n2 \in 0..1 :
         hist = Block("up", nu, KeyOf(BarNow) - age, 0)
                \o Block("maintenance", nm, KeyOf(BarNow) - age, MaxUp + 1)
                \o Block("down", nd, KeyOf(BarNow) - age, MaxUp + MaxOther + 2)
                \o Block(st2, n2, KeyOf(BarNow) - age2, MaxUp + 2 * MaxOther + 3)
    /\ view = << >>
    /\ issues = << >>
    /\ repo = << >>
    /\ twin = << >>

\* const historyBar = generateHistoryBar(allHistory, period, locale)
RenderBar ==
    /\ view = None
    /\ view' = Some([bars |-> generateHistoryBar(hist, now[1])])
    /\ UNCHANGED <<phase, services, probes, results, now, disk, index, pages, clock, runs,
                   pushed, configFile, hist, issues, repo, twin>>

BarNext == RenderBar

BarSpec == BarInit /\ [][BarNext]_vars

(***************************************************************************)
(* Claims about the history bar (BarSpec)                                  *)
(***************************************************************************)
\* the entries of hist in the bucket of bar j
InBar(j) == { i \in DOMAIN hist : KeyOf(hist[i].timestamp) = KeyOf(now[1]) - (BarUnits - j) }

UpIn(j)     == Cardinality({ i \in InBar(j) : hist[i].status = "up" })
ActiveIn(j) == Cardinality({ i \in InBar(j) : hist[i].status # "maintenance" })

C24_MaintenanceAndEmpty ==
    view # None =>
        \A j \in 1..BarUnits :
            /\ InBar(j) = {} => view[1].bars[j] = ""
            /\ (InBar(j) # {} /\ ActiveIn(j) = 0) => view[1].bars[j] = "maintenance"
            /\ ActiveIn(j) > 0 =>
                 view[1].bars[j] =
                     BucketStatus(SelectSeq(hist, LAMBDA e :
                         /\ KeyOf(e.timestamp) = KeyOf(now[1]) - (BarUnits - j)
                         /\ e.status # "maintenance"))

\* an empty bar, a bar of maintenance entries only, and a mixed bar that is
\* up although one entry in two of it is maintenance
C24_Witness ==
    /\ view # None
    /\ \E j \in 1..BarUnits : InBar(j) = {} /\ view[1].bars[j] = ""
    /\ \E j \in 1..BarUnits :
         /\ UpIn(j) = 2 /\ ActiveIn(j) = 2 /\ Cardinality(InBar(j)) = 4
         /\ view[1].bars[j] = "up"
    /\ \E j \in 1..BarUnits :
         /\ InBar(j) # {} /\ ActiveIn(j) = 0
         /\ view[1].bars[j] = "maintenance"

(***************************************************************************)
(* IssueSpec: manageIssues (manage-issues.js) run after each run of the    *)
(* monitor, as the workflow does. The repository's issues are the variable *)
(* issues; every issue of the model carries the label incident.            *)
(***************************************************************************)
MaxCycles == 2      \* runs of the monitor, each followed by manageIssues
PageSize  == 2      \* issues on one page of listForRepo: stands for 30 (scaled)

\* the targets of the configuration, all HTTP, in configuration order
IssueIds == <<"web", "api", "blog">>

\* `${service.name} is down` after the red circle: the names are the ids
IssueTitle(svc) == <<svc.id, "is down">>

\* the configuration of a run: a target is under maintenance or not
IssueConfig(m) ==
    [i \in DOMAIN IssueIds |->
        Service(IssueIds[i], "http",
                IF m[i] = "maintenance" THEN Some("upgrade") ELSE None, None)]

\* the promise of checkUrl(svc, attempt) called at t0 whose first attempt is
\* answered with the status code `code`
ProbeWith(svc, attempt, t0, code) ==
    LET p0 == checkUrl(svc, attempt, t0) IN
    IF p0.pc # "pending" THEN p0
    ELSE checkUrlAttempt(svc, p0, Ev("response", Some(code)))

\* github.rest.issues.listForRepo({labels: 'incident', state: 'open'}): one
\* page of the open issues, the newest first; the call sets no per_page and
\* reads no further page
ListOpen(is) ==
    LET open == SelectSeq(is, LAMBDA x : x.state = "open")
    IN SubSeq(Reverse(open), 1, IF Len(open) < PageSize THEN Len(open) ELSE PageSize)

\* issues.data.find(issue => issue.title === issueTitle): << >> when none
FindIssue(page, title) ==
    IF \E k \in DOMAIN page : page[k].title = title
    THEN Some(page[CHOOSE k \in DOMAIN page :
                 /\ page[k].title = title
                 /\ \A j \in 1..(k - 1) : page[j].title # title])
    ELSE None

\* issues.create
CreateIssue(is, title) ==
    Append(is, [number |-> Len(is) + 1, title |-> title, state |-> "open", comments |-> 0])

\* issues.createComment, then issues.update({state: 'closed'})
CommentAndClose(is, number) ==
    [is EXCEPT ![number].comments = @ + 1, ![number].state = "closed"]

\* mutant of ManageOne: the issue is closed whenever the target is not down
ManageOne_CloseUnlessDown(is, svc, d) ==
    IF svc.id \notin DOMAIN d.status THEN is
    ELSE LET existingIssue == FindIssue(ListOpen(is), IssueTitle(svc)) IN
         IF d.status[svc.id].status = "down" /\ existingIssue = None
         THEN CreateIssue(is, IssueTitle(svc))
         ELSE IF d.status[svc.id].status # "down" /\ existingIssue # None
         THEN CommentAndClose(is, existingIssue[1].number)
         ELSE is

\* the body of the loop over config.services, for one service
ManageOne(is, svc, d) ==
    IF svc.id \notin DOMAIN d.status THEN is
    ELSE LET existingIssue == FindIssue(ListOpen(is), IssueTitle(svc)) IN
         IF d.status[svc.id].status = "down" /\ existingIssue = None
         THEN CreateIssue(is, IssueTitle(svc))
         ELSE IF d.status[svc.id].status = "up" /\ existingIssue # None
         THEN CommentAndClose(is, existingIssue[1].number)
         ELSE is

\* for (const service of config.services), one after the other
RECURSIVE manageIssues(_, _, _)
manageIssues(is, svcs, d) ==
    IF svcs = << >> THEN is
    ELSE manageIssues(ManageOne(is, Head(svcs), d), Tail(svcs), d)

\* a run of the monitor whose probes are all answered at the first attempt
MonitorRun ==
    /\ phase \in {"idle", "managed"}
    /\ runs < MaxCycles
    /\ \E m \in [DOMAIN IssueIds -> Statuses] :
         LET cfg  == IssueConfig(m)
             ps   == [i \in DOMAIN cfg |->
                        ProbeWith(cfg[i], MapAttempt(i), clock,
                                  IF m[i] = "up" THEN 200 ELSE 503)]
             rs   == PromiseAll(ps)
             nowT == MaxOver([i \in DOMAIN ps |-> ps[i].t], Len(ps))
         IN /\ services' = cfg
            /\ probes' = ps
            /\ results' = rs
            /\ now' = Some(nowT)
            /\ disk' = saveResults(disk, rs, nowT, MonthOf(nowT))
            /\ pushed' = CountPushes(pushed, rs, MonthOf(nowT))
            /\ index' = [i \in DOMAIN rs |-> rs[i].id]
            /\ pages' = { cfg[i].id : i \in DOMAIN cfg }
    /\ phase' = "done"
    /\ clock' = clock + Interval
    /\ runs' = runs + 1
    /\ UNCHANGED aux

\* the run of manageIssues that follows
ManageIssues ==
    /\ phase = "done"
    /\ issues' = manageIssues(issues, services, disk)
    /\ phase' = "managed"
    /\ UNCHANGED <<services, probes, results, now, disk, index, pages, clock, runs, pushed,
                   configFile, hist, view, repo, twin>>

IssueNext == MonitorRun \/ ManageIssues

IssueSpec == StoreInit /\ [][IssueNext]_vars

(***************************************************************************)
(* Claims about the incident issues (IssueSpec)                            *)
(***************************************************************************)
\* the issues of the repository that carry the title of target id
IssuesOf(is, id) == SelectSeq(is, LAMBDA x : x.title = <<id, "is down">>)

OpenIssuesOf(is, id) == SelectSeq(IssuesOf(is, id), LAMBDA x : x.state = "open")

\* C25: a run of manageIssues in which the snapshot of a target is
\* maintenance neither creates, nor comments on, nor closes an incident issue
\* of that target: its issues are after the run what they were before.
C25_MaintenanceIsSilent ==
    [][phase' = "managed" =>
         \A id \in DOMAIN disk.status :
             disk.status[id].status = "maintenance" =>
                 IssuesOf(issues', id) = IssuesOf(issues, id)]_vars

\* a target that was down, has an open issue, and is now under maintenance
C25_Witness ==
    /\ phase = "managed"
    /\ \E id \in DOMAIN disk.status :
         /\ disk.status[id].status = "maintenance"
         /\ Len(OpenIssuesOf(issues, id)) = 1
    /\ \E k \in DOMAIN issues : issues[k].state = "closed"

\* C26: after each run of manageIssues a target whose snapshot is down has
\* exactly one open incident issue and a target whose snapshot is up has none.
C26_OneOpenIssueWhileDown ==
    phase = "managed" =>
        \A id \in DOMAIN disk.status :
            /\ disk.status[id].status = "down" => Len(OpenIssuesOf(issues, id)) = 1
            /\ disk.status[id].status = "up" => Len(OpenIssuesOf(issues, id)) = 0

(***************************************************************************)
(* Claims about the time an attempt takes (Spec)                           *)
(***************************************************************************)
\* C27: the responseTime of an outcome reached after k retries is at least k
\* times the retry delay, because it is measured from the start of the first
\* attempt.
C27_ResponseTimeSpansRetries ==
    \A i \in DOMAIN probes :
        Probed(i) => Result(i).responseTime >= probes[i].delays * RETRY_DELAY

\* C28: no probe waits on a single attempt forever: an attempt whose peer never
\* answers is ended once the target's timeout elapses, whatever its kind.
C28_EveryAttemptBounded ==
    \A i \in DOMAIN probes : probes[i].pc # "hung"

(***************************************************************************)
(* Claims about what a batch run leaves alone (StoreSpec)                  *)
(***************************************************************************)
\* the targets of the batch of the run that ends in the next state
InBatch(id) == phase' = "done" /\ \E i \in DOMAIN services' : services'[i].id = id

\* C29: a batch run changes only the snapshots of the targets of the batch and
\* their partitions of the current month; such a partition becomes the entries
\* it had, without the oldest ones beyond the cap, in their order, followed by
\* one new entry; every other snapshot and partition (other months, targets
\* absent from the batch) is still there and is what it was.
C29_FrameOfARun ==
    [][/\ \A id \in DOMAIN disk.status : id \in DOMAIN disk'.status
       /\ \A k \in DOMAIN disk.history : k \in DOMAIN disk'.history
       /\ \A id \in DOMAIN disk'.status :
            \/ InBatch(id)
            \/ id \in DOMAIN disk.status /\ disk'.status[id] = disk.status[id]
       /\ \A k \in DOMAIN disk'.history :
            LET new == disk'.history[k]
                old == IF k \in DOMAIN disk.history THEN disk.history[k] ELSE << >>
                evicted == IF Len(old) + 1 > HistoryCap THEN Len(old) + 1 - HistoryCap ELSE 0
            IN IF InBatch(k[1]) /\ k[2] = MonthOf(now'[1])
               THEN /\ Len(new) = Len(old) - evicted + 1
                    /\ SubSeq(new, 1, Len(new) - 1) = SubSeq(old, evicted + 1, Len(old))
               ELSE k \in DOMAIN disk.history /\ new = old]_vars

\* a run that evicted from a full partition while the disk held a partition
\* of an earlier month and the snapshot and partition of a target that was not
\* in the batch
C29_Witness ==
    /\ phase = "done"
    /\ \E k \in DOMAIN disk.history :
         /\ \E i \in DOMAIN services : services[i].id = k[1]
         /\ k[2] = MonthOf(now[1])
         /\ pushed[k] > HistoryCap
    /\ \E k \in DOMAIN disk.history : k[2] < MonthOf(now[1])
    /\ \E id \in DOMAIN disk.status :
         /\ \A i \in DOMAIN services : services[i].id # id
         /\ \E k \in DOMAIN disk.history : k[1] = id

(***************************************************************************)
(* LinkSpec: generateReportLink (lib/utils.js) on the report of the         *)
(* configuration. A string is the sequence of its characters; a fixed      *)
(* fragment of the template literal is a single element of the output.     *)
(***************************************************************************)
MaxBodyLen == 5     \* characters of a report after its scheme

Mailto == <<"m", "a", "i", "l", "t", "o", ":">>

BodyChars == {"a", "@", "."}

Bodies == UNION { [1..n -> BodyChars] : n \in 0..MaxBodyLen }

\* config.report: missing, or a string that starts with mailto: or does not
Reports == {None} \cup { Some(pre \o b) : pre \in {<< >>, Mailto}, b \in Bodies }

\* lang.report: undefined, or a string
ReportTexts == {None, Some(<< >>), Some(<<"H", "e", "l", "p">>)}

\* /^[^@]+@[^@]+\.[^@]+$/.test(report)
IsEmail(report) ==
    \E i \in 2..Len(report) :
        /\ report[i] = "@"
        /\ \A j \in DOMAIN report : report[j] = "@" => j = i
        /\ \E k \in (i + 2)..(Len(report) - 1) : report[k] = "."

\* reportUrl.startsWith('mailto:')
StartsWith(str, prefix) ==
    Len(str) >= Len(prefix) /\ SubSeq(str, 1, Len(prefix)) = prefix

\* the default value of the parameter applies to undefined only
ReportText(reportText) == IF reportText = None THEN <<"Report an issue">> ELSE reportText[1]

Anchor(reportUrl, attributes, text) ==
    <<"<a href=\"">> \o reportUrl \o <<"\"">>
        \o (IF attributes # << >> THEN <<" ">> \o attributes ELSE << >>)
        \o <<">">> \o text \o <<"</a>">>

generateReportLink(report, reportText) ==
    IF report = None \/ report[1] = << >> THEN << >>
    ELSE LET isEmail    == IsEmail(report[1])
             reportUrl  == IF isEmail THEN Mailto \o report[1] ELSE report[1]
             attributes == IF StartsWith(reportUrl, Mailto) THEN << >>
                           ELSE <<"target=\"_blank\" rel=\"noopener\"">>
         IN Anchor(reportUrl, attributes, ReportText(reportText))

LinkInit ==
    /\ phase = "idle"
    /\ services = << >>
    /\ probes = << >>
    /\ results = << >>
    /\ now = None
    /\ disk = EmptyDisk
    /\ index = << >>
    /\ pages = {}
    /\ clock = 0
    /\ runs = 0
    /\ pushed = << >>
    /\ \E r \in Reports : \E t \in ReportTexts :
         configFile = Some([report |-> r, reportText |-> t])
    /\ hist = << >>
    /\ view = << >>
    /\ issues = << >>
    /\ repo = << >>
    /\ twin = << >>

\* const reportLink = generateReportLink(config.report, lang.report)
RenderReportLink ==
    /\ view = None
    /\ view' = Some([reportLink |->
                       generateReportLink(configFile[1].report, configFile[1].reportText)])
    /\ UNCHANGED <<phase, services, probes, results, now, disk, index, pages, clock, runs,
                   pushed, configFile, hist, issues, repo, twin>>

LinkNext == RenderReportLink

LinkSpec == LinkInit /\ [][LinkNext]_vars

(***************************************************************************)
(* Claims about the report link (LinkSpec)                                 *)
(***************************************************************************)
\* C30: the link is empty for a missing or empty report; for a report shaped
\* like an e-mail address it is an anchor to mailto: followed by the report,
\* without a target attribute; for any other report it is an anchor to the
\* report with target="_blank" rel="noopener"; the text is the text given, or
\* 'Report an issue' when none is given.
C30_ReportLink ==
    view # None =>
        LET report == configFile[1].report
            text   == IF configFile[1].reportText = None THEN <<"Report an issue">>
                      ELSE configFile[1].reportText[1]
            link   == view[1].reportLink
        IN IF report = None \/ report[1] = << >> THEN link = << >>
           ELSE IF IsEmail(report[1])
           THEN link = <<"<a href=\"">> \o Mailto \o report[1] \o <<"\"", ">">>
                           \o text \o <<"</a>">>
           ELSE link = <<"<a href=\"">> \o report[1]
                           \o <<"\"", " ", "target=\"_blank\" rel=\"noopener\"", ">">>
                           \o text \o <<"</a>">>

(***************************************************************************)
(* ReleaseSpec: scripts/release.js and scripts/changelog.js on CHANGELOG.md *)
(* and package.json. The changelog is the sequence of its lines; the text  *)
(* of a version and of an entry is the sequence of its characters.         *)
(***************************************************************************)
MaxCommands  == 3   \* commands run against the repository
MaxReleased  == 2   \* released versions of the changelog at the start

\* ## [name] - date, or ## [Unreleased]
VersionLine(name, date) == [k |-> "version", name |-> name, date |-> date]

\* ### name
SectionLine(name) == [k |-> "section", name |-> name]

\* - text
ItemLine(text) == [k |-> "item", text |-> text]

BlankLine == [k |-> "blank"]

Unreleased == <<"Unreleased">>

DigitChars == <<"0", "1", "2", "3", "4", "5", "6", "7", "8", "9">>

DigitVal(c) == (CHOOSE i \in 1..10 : DigitChars[i] = c) - 1

\* Number(str) and parseInt(str, 10) of a string of decimal digits; Number('') is 0
RECURSIVE ToNumber(_)
ToNumber(str) ==
    IF str = << >> THEN 0
    ELSE ToNumber(SubSeq(str, 1, Len(str) - 1)) * 10 + DigitVal(str[Len(str)])

\* `${n}` of a non-negative integer
RECURSIVE ToText(_)
ToText(n) ==
    IF n < 10 THEN <<DigitChars[n + 1]>>
    ELSE ToText(n \div 10) \o <<DigitChars[(n % 10) + 1]>>

\* str.split('.')
RECURSIVE SplitDots(_)
SplitDots(str) ==
    IF \E i \in DOMAIN str : str[i] = "."
    THEN LET i == CHOOSE i \in DOMAIN str :
                     str[i] = "." /\ \A j \in 1..(i - 1) : str[j] # "."
         IN <<SubSeq(str, 1, i - 1)>> \o SplitDots(SubSeq(str, i + 1, Len(str)))
    ELSE <<str>>

\* a.b.c
Dotted(a, b, c) == ToText(a) \o <<".">> \o ToText(b) \o <<".">> \o ToText(c)

\* the step of the loop of parseChangelog for one line; acc.cur is the index of
\* currentVersion in acc.versions (0 for null), acc.sec is currentSection
ParseLine(acc, line) ==
    IF line.k = "version"
    THEN LET fresh == [name |-> line.name, date |-> line.date, sections |-> << >>]
             known == { i \in DOMAIN acc.versions : acc.versions[i].name = line.name }
         IN IF known = {}
            THEN [versions |-> Append(acc.versions, fresh),
                  cur |-> Len(acc.versions) + 1, sec |-> None]
            ELSE LET i == CHOOSE i \in known : TRUE
                 IN [versions |-> [acc.versions EXCEPT ![i] = fresh], cur |-> i, sec |-> None]
    ELSE IF acc.cur # 0 /\ line.k = "section"
    THEN LET secs == acc.versions[acc.cur].sections IN
         IF \E j \in DOMAIN secs : secs[j].name = line.name
         THEN [acc EXCEPT !.sec = Some(line.name)]
         ELSE [acc EXCEPT !.sec = Some(line.name),
                          !.versions[acc.cur].sections =
                              Append(@, [name |-> line.name, items |-> << >>])]
    ELSE IF acc.cur # 0 /\ acc.sec # None /\ line.k = "item"
    THEN LET secs == acc.versions[acc.cur].sections
             j    == CHOOSE j \in DOMAIN secs : secs[j].name = acc.sec[1]
         IN [acc EXCEPT !.versions[acc.cur].sections[j].items = Append(@, line.text)]
    ELSE acc

RECURSIVE ParseLines(_, _)
ParseLines(acc, lines) ==
    IF lines = << >> THEN acc ELSE ParseLines(ParseLine(acc, Head(lines)), Tail(lines))

\* parseChangelog().versions: the versions in the order of their keys
parseChangelog(content) ==
    ParseLines([versions |-> << >>, cur |-> 0, sec |-> None], content).versions

\* getUnreleasedChanges().sections
getUnreleasedChanges(content) ==
    LET versions == parseChangelog(content) IN
    IF \E i \in DOMAIN versions : versions[i].name = Unreleased
    THEN versions[CHOOSE i \in DOMAIN versions : versions[i].name = Unreleased].sections
    ELSE << >>

\* mutant of hasUnreleasedChanges: a heading is enough, as in createRelease
hasUnreleasedChanges_AnySection(content) ==
    Len(getUnreleasedChanges(content)) > 0

hasUnreleasedChanges(content) ==
    LET sections == getUnreleasedChanges(content) IN
    \E j \in DOMAIN sections : Len(sections[j].items) > 0

\* (aParts[i] || 0) of the comparator
PartOrZero(parts, i) == IF i <= Len(parts) THEN ToNumber(parts[i]) ELSE 0

\* mutant of CompareVersions: only the first digit of a component is compared
RECURSIVE CompareVersions_Text(_, _, _)
CompareVersions_Text(a, b, i) ==
    LET aParts == SplitDots(a)
        bParts == SplitDots(b)
        x == IF i <= Len(aParts) /\ aParts[i] # << >> THEN DigitVal(aParts[i][1]) ELSE 0
        y == IF i <= Len(bParts) /\ bParts[i] # << >> THEN DigitVal(bParts[i][1]) ELSE 0
    IN IF i > Max(Len(aParts), Len(bParts)) THEN 0
       ELSE IF x - y # 0 THEN -(x - y)
       ELSE CompareVersions_Text(a, b, i + 1)

\* the comparator of the sort of getLatestVersion, from component i on
RECURSIVE CompareVersions(_, _, _)
CompareVersions(a, b, i) ==
    LET aParts == SplitDots(a)
        bParts == SplitDots(b)
        aDiff  == PartOrZero(aParts, i) - PartOrZero(bParts, i)
    IN IF i > Max(Len(aParts), Len(bParts)) THEN 0
       ELSE IF aDiff # 0 THEN -aDiff
       ELSE CompareVersions(a, b, i + 1)

\* releases[0] after the sort, null (<< >>) when there is no release
getLatestVersion(content) ==
    LET versions == parseChangelog(content)
        releases == SelectSeq([i \in DOMAIN versions |-> versions[i].name],
                              LAMBDA v : v # Unreleased)
    IN IF releases = << >> THEN None
       ELSE Some(releases[CHOOSE i \in DOMAIN releases :
                     /\ \A j \in DOMAIN releases : CompareVersions(releases[i], releases[j], 1) <= 0
                     /\ \A j \in 1..(i - 1) : CompareVersions(releases[j], releases[i], 1) # 0])

\* parseVersion, then the switch of incrementVersion
incrementVersion(version, type) ==
    LET parts == SplitDots(version)
        major == ToNumber(parts[1])
        minor == ToNumber(parts[2])
        patch == ToNumber(parts[3])
    IN IF type = "major" THEN Dotted(major + 1, 0, 0)
       ELSE IF type = "minor" THEN Dotted(major, minor + 1, 0)
       ELSE Dotted(major, minor, patch + 1)

\* GetSubstitution of String.prototype.replace on a replacement text: $$ stands
\* for one $ (the characters of the model form no other pattern: $&, $1, ...)
RECURSIVE GetSubstitution(_)
GetSubstitution(text) ==
    IF Len(text) < 2 THEN text
    ELSE IF text[1] = "$" /\ text[2] = "$"
    THEN <<"$">> \o GetSubstitution(SubSeq(text, 3, Len(text)))
    ELSE <<text[1]>> \o GetSubstitution(Tail(text))

\* the replacement of a replace call, line by line
SubstituteLines(lines) ==
    [i \in DOMAIN lines |->
        IF lines[i].k = "item" THEN ItemLine(GetSubstitution(lines[i].text)) ELSE lines[i]]

\* the index of the first line that holds "## [Unreleased]", 0 when none does
UnreleasedAt(content) ==
    IF \E i \in DOMAIN content : content[i] = VersionLine(Unreleased, None)
    THEN CHOOSE i \in DOMAIN content :
            /\ content[i] = VersionLine(Unreleased, None)
            /\ \A j \in 1..(i - 1) : content[j] # VersionLine(Unreleased, None)
    ELSE 0

\* the index of the first "## [" after line u, Len(content) + 1 when there is none ($)
NextVersionAt(content, u) ==
    IF \E i \in (u + 1)..Len(content) : content[i].k = "version"
    THEN CHOOSE i \in (u + 1)..Len(content) :
            /\ content[i].k = "version"
            /\ \A j \in (u + 1)..(i - 1) : content[j].k # "version"
    ELSE Len(content) + 1

\* `### ${section}\n${formattedItems}\n\n` for the sections that have items
RECURSIVE FormatSections(_)
FormatSections(sections) ==
    IF sections = << >> THEN << >>
    ELSE LET sec == Head(sections) IN
         (IF Len(sec.items) > 0
          THEN <<SectionLine(sec.name)>>
                   \o [i \in DOMAIN sec.items |-> ItemLine(sec.items[i])]
                   \o <<BlankLine>>
          ELSE << >>) \o FormatSections(Tail(sections))

\* releaseSection of createRelease
ReleaseSection(unreleased, version, date) ==
    <<VersionLine(version, Some(date)), BlankLine>> \o FormatSections(unreleased)

\* createRelease(version, date): the value returned, CHANGELOG.md and the
\* version of package.json afterwards
createRelease(r, version, date) ==
    LET content    == r.changelog
        unreleased == getUnreleasedChanges(content)
        u          == UnreleasedAt(content)
        n          == NextVersionAt(content, u)
        template   == <<VersionLine(Unreleased, None), BlankLine,
                        SectionLine("Added"), BlankLine,
                        SectionLine("Changed"), BlankLine,
                        SectionLine("Fixed"), BlankLine>>
        newContent == SubSeq(content, 1, u - 1)
                          \o SubstituteLines(template \o ReleaseSection(unreleased, version, date))
                          \o SubSeq(content, n, Len(content))
    IN IF Len(unreleased) = 0 THEN [success |-> FALSE, repo |-> r]
       ELSE [success |-> TRUE,
             repo |-> [r EXCEPT !.changelog = newContent, !.package = version]]

\* the index of the first "### section\n" after line u, 0 when there is none
SectionAt(content, u, section) ==
    IF \E i \in (u + 1)..Len(content) : content[i] = SectionLine(section)
    THEN CHOOSE i \in (u + 1)..Len(content) :
            /\ content[i] = SectionLine(section)
            /\ \A j \in (u + 1)..(i - 1) : content[j] # SectionLine(section)
    ELSE 0

\* content with lines put after line i
InsertAt(content, i, lines) ==
    SubSeq(content, 1, i) \o lines \o SubSeq(content, i + 1, Len(content))

\* addUnreleasedEntry(section, message)
addUnreleasedEntry(content, section, message) ==
    LET u == UnreleasedAt(content)
        s == SectionAt(content, u, section)
    IN IF u = 0 THEN content
       ELSE IF s # 0
       THEN InsertAt(content, s, <<ItemLine(GetSubstitution(message))>>)
       ELSE InsertAt(content, NextVersionAt(content, u) - 1,
                     <<SectionLine(section), ItemLine(GetSubstitution(message)), BlankLine>>)

\* getLatestVersion() || '0.0.0'
CurrentVersion(content) ==
    LET latest == getLatestVersion(content) IN
    IF latest = None THEN Dotted(0, 0, 0) ELSE latest[1]

\* newVersion of main()
NewVersion(content, type) == incrementVersion(CurrentVersion(content), type)

\* the texts of an entry written by hand: a, $a and $$
Texts == { <<"a">>, <<"$", "a">>, <<"$", "$">> }

\* the messages addUnreleasedEntry is called with
Messages == { <<"a">>, <<"$", "$">> }

\* the sections addUnreleasedEntry is called with
EntrySections == {"Added", "Removed"}

ReleaseTypes == {"major", "minor", "patch"}

\* the versions a changelog can hold at the start
Versions == { Dotted(1, 0, 9), Dotted(1, 0, 10), Dotted(0, 9, 0) }

\* the section of a released version, as createRelease writes it
Released(version) ==
    <<VersionLine(version, Some("earlier")), BlankLine,
      SectionLine("Removed"), ItemLine(<<"a">>), BlankLine>>

RECURSIVE ReleasedAll(_)
ReleasedAll(versions) ==
    IF versions = << >> THEN << >>
    ELSE Released(Head(versions)) \o ReleasedAll(Tail(versions))

\* the lists of released versions at the start, in the order of the file
VersionLists ==
    UNION { { vs \in [1..n -> Versions] : \A i, j \in 1..n : vs[i] = vs[j] => i = j }
            : n \in 0..MaxReleased }

\* what [Unreleased] holds at the start: the empty template createRelease
\* leaves, or entries written by hand as RELEASES.md describes
UnreleasedBodies(t) ==
    { <<SectionLine("Added"), BlankLine, SectionLine("Changed"), BlankLine,
        SectionLine("Fixed"), BlankLine>>,
      <<SectionLine("Added"), ItemLine(t), BlankLine>>,
      <<SectionLine("Added"), ItemLine(<<"a">>), ItemLine(t), BlankLine,
        SectionLine("Fixed"), ItemLine(t), BlankLine>> }

Changelog(body, versions) ==
    <<[k |-> "text"], BlankLine, VersionLine(Unreleased, None), BlankLine>>
        \o body \o ReleasedAll(versions)

ReleaseInit ==
    /\ phase = "idle"
    /\ services = << >>
    /\ probes = << >>
    /\ results = << >>
    /\ now = None
    /\ disk = EmptyDisk
    /\ index = << >>
    /\ pages = {}
    /\ clock = 0
    /\ runs = 0
    /\ pushed = << >>
    /\ configFile = << >>
    /\ hist = << >>
    /\ view = << >>
    /\ issues = << >>
    /\ twin = << >>
    /\ \E t \in Texts : \E body \in UnreleasedBodies(t) : \E vs \in VersionLists :
         repo = [changelog |-> Changelog(body, vs),
                 package |-> CurrentVersion(Changelog(body, vs)),
                 exitCode |-> None]

ReleaseFrame ==
    UNCHANGED <<services, probes, results, now, disk, index, pages, clock, pushed,
                configFile, hist, view, issues, twin>>

\* main() of release.js ends at process.exit(1): no unreleased changes, or
\* createRelease returned false
ReleaseRejected ==
    /\ runs < MaxCommands
    /\ \/ ~hasUnreleasedChanges(repo.changelog)
       \/ /\ hasUnreleasedChanges(repo.changelog)
          /\ \E type \in ReleaseTypes :
               ~createRelease(repo, NewVersion(repo.changelog, type), "today").success
    /\ repo' = [repo EXCEPT !.exitCode = Some(1)]
    /\ phase' = "rejected"
    /\ runs' = runs + 1
    /\ ReleaseFrame

\* main() of release.js returns at the dry-run branch
ReleaseDry ==
    /\ runs < MaxCommands
    /\ hasUnreleasedChanges(repo.changelog)
    /\ repo' = [repo EXCEPT !.exitCode = Some(0)]
    /\ phase' = "dry"
    /\ runs' = runs + 1
    /\ ReleaseFrame

\* main() of release.js creates the release
Release ==
    /\ runs < MaxCommands
    /\ hasUnreleasedChanges(repo.changelog)
    /\ \E type \in ReleaseTypes :
         LET created == createRelease(repo, NewVersion(repo.changelog, type), "today")
         IN /\ created.success
            /\ repo' = [created.repo EXCEPT !.exitCode = Some(0)]
    /\ phase' = "released"
    /\ runs' = runs + 1
    /\ ReleaseFrame

\* a call of addUnreleasedEntry(section, message)
AddUnreleasedEntry ==
    /\ runs < MaxCommands
    /\ \E section \in EntrySections : \E message \in Messages :
         repo' = [repo EXCEPT !.changelog = addUnreleasedEntry(@, section, message),
                              !.exitCode = None]
    /\ phase' = "added"
    /\ runs' = runs + 1
    /\ ReleaseFrame

ReleaseNext == ReleaseRejected \/ ReleaseDry \/ Release \/ AddUnreleasedEntry

ReleaseSpec == ReleaseInit /\ [][ReleaseNext]_vars

(***************************************************************************)
(* Claims about the release command and the changelog (ReleaseSpec)        *)
(***************************************************************************)
\* the lines of the [Unreleased] part of the file, heading excluded
UnreleasedLines(content) ==
    SubSeq(content, UnreleasedAt(content) + 1,
           NextVersionAt(content, UnreleasedAt(content)) - 1)

\* the entries of the [Unreleased] part, in the order of the file
UnreleasedEntries(content) ==
    SelectSeq(UnreleasedLines(content), LAMBDA line : line.k = "item")

ReleaseCommand == phase' \in {"rejected", "dry", "released"}

\* C31: a run of the release command changes CHANGELOG.md or package.json
\* only if [Unreleased] has an entry and it is not a dry run; a dry run and a
\* run without an unreleased entry leave both as they were, and the run
\* without an entry exits with code 1.
C31_ReleaseFrame ==
    [][ReleaseCommand =>
          /\ phase' # "released" =>
                 repo'.changelog = repo.changelog /\ repo'.package = repo.package
          /\ UnreleasedEntries(repo.changelog) = << >> =>
                 /\ repo'.changelog = repo.changelog /\ repo'.package = repo.package
                 /\ repo'.exitCode = Some(1)
          /\ phase' = "released" =>
                 /\ UnreleasedEntries(repo.changelog) # << >>
                 /\ repo'.changelog # repo.changelog
                 /\ repo'.package # repo.package]_vars

\* a dry run with entries waiting, after an entry was added: nothing released
C31_Witness ==
    /\ phase = "dry"
    /\ repo.exitCode = Some(0)
    /\ UnreleasedEntries(repo.changelog) # << >>
    /\ repo.package = CurrentVersion(repo.changelog)
    /\ runs > 1

\* the headings that have entries and the entries of some lines, in their order
RECURSIVE Outline(_)
Outline(lines) ==
    IF lines = << >> THEN << >>
    ELSE IF Head(lines).k = "item" THEN <<Head(lines)>> \o Outline(Tail(lines))
    ELSE IF /\ Head(lines).k = "section"
            /\ Outline(Tail(lines)) # << >>
            /\ Head(Outline(Tail(lines))).k = "item"
    THEN <<Head(lines)>> \o Outline(Tail(lines))
    ELSE Outline(Tail(lines))

\* the lines of the part of the file under the heading of version, heading excluded
VersionLines(content, version) ==
    LET at == CHOOSE i \in DOMAIN content :
                  content[i].k = "version" /\ content[i].name = version
    IN SubSeq(content, at + 1, NextVersionAt(content, at) - 1)

\* C32: after a release [Unreleased] has no entry, the part of the released
\* version holds the entries that were unreleased, under the same headings and
\* in the same order, and a further release has nothing to release.
C32_ReleaseMovesEntries ==
    [][phase' = "released" =>
          /\ UnreleasedEntries(repo'.changelog) = << >>
          /\ \E i \in DOMAIN repo'.changelog :
                 repo'.changelog[i] = VersionLine(repo'.package, Some("today"))
          /\ Outline(VersionLines(repo'.changelog, repo'.package))
                 = Outline(UnreleasedLines(repo.changelog))
          /\ ~hasUnreleasedChanges(repo'.changelog)]_vars

\* the numbers of a version text a.b.c
Triple(version) ==
    LET parts == SplitDots(version)
    IN <<ToNumber(parts[1]), ToNumber(parts[2]), ToNumber(parts[3])>>

\* x is greater than y, component by component
Greater(x, y) ==
    \/ x[1] > y[1]
    \/ x[1] = y[1] /\ x[2] > y[2]
    \/ x[1] = y[1] /\ x[2] = y[2] /\ x[3] > y[3]

\* the released versions the file names, as numbers (0.0.0 stands for none)
ReleasedTriples(content) ==
    { Triple(content[i].name) :
        i \in { j \in DOMAIN content :
                  content[j].k = "version" /\ content[j].name # Unreleased } }
    \cup { <<0, 0, 0>> }

Greatest(triples) == CHOOSE x \in triples : \A y \in triples : x = y \/ Greater(x, y)

\* C33: the version of a release is the greatest version of the changelog,
\* compared as numbers, with one component incremented and the lower ones
\* reset to 0; it is greater than every version released before, and it is
\* the version of package.json and the greatest of the changelog afterwards.
C33_VersionsIncrease ==
    [][phase' = "released" =>
          LET g == Greatest(ReleasedTriples(repo.changelog))
              v == Triple(repo'.package)
          IN /\ v \in { <<g[1] + 1, 0, 0>>, <<g[1], g[2] + 1, 0>>, <<g[1], g[2], g[3] + 1>> }
             /\ \A y \in ReleasedTriples(repo.changelog) : Greater(v, y)
             /\ v = Greatest(ReleasedTriples(repo'.changelog))
             /\ repo'.package = Dotted(v[1], v[2], v[3])]_vars

\* a patch release of a changelog that names 1.0.9 and 1.0.10
C33_Witness ==
    /\ phase = "released"
    /\ repo.package = Dotted(1, 0, 11)
    /\ {<<1, 0, 9>>, <<1, 0, 10>>} \subseteq ReleasedTriples(repo.changelog)

\* the file without the part under [Unreleased]: what comes before the heading
\* and the parts of the released versions
ReleasedParts(content) ==
    SubSeq(content, 1, UnreleasedAt(content))
        \o SubSeq(content, NextVersionAt(content, UnreleasedAt(content)), Len(content))

\* C37: addUnreleasedEntry adds the entry to the part under [Unreleased] and
\* leaves the parts of the released versions as they were, also when a released
\* version has a section of the same name.
C37_EntryGoesToUnreleased ==
    [][phase' = "added" =>
          /\ ReleasedParts(repo'.changelog) = ReleasedParts(repo.changelog)
          /\ Len(UnreleasedEntries(repo'.changelog))
                 = Len(UnreleasedEntries(repo.changelog)) + 1]_vars

(***************************************************************************)
(* BaselineSpec: the entries calculateTrend averages when the history of   *)
(* a target is read from two monthly partitions by getServiceHistory.      *)
(***************************************************************************)
MaxPartLen == 6     \* entries of a monthly partition (fewer than the cap of 4320)

\* a partition of month ym: n entries of one kind, one per check
Partition(kind, n, ym) ==
    [i \in 1..n |->
        [timestamp |-> ym * MonthMs + i, status |-> kind.status, statusCode |-> None,
         responseTime |-> kind.responseTime, error |-> None]]

BaselineInit ==
    /\ phase = "idle"
    /\ services = << >>
    /\ probes = << >>
    /\ results = << >>
    /\ now = None
    /\ \E k0, k1 \in EntryKinds : \E n0, n1 \in 0..MaxPartLen :
         disk = [EmptyDisk EXCEPT
                   !.history = (<<"web", 0>> :> Partition(k0, n0, 0))
                                   @@ (<<"web", 1>> :> Partition(k1, n1, 1))]
    /\ index = << >>
    /\ pages = {}
    /\ clock = 0
    /\ runs = 0
    /\ pushed = << >>
    /\ configFile = << >>
    /\ hist = << >>
    /\ view = << >>
    /\ issues = << >>
    /\ repo = << >>
    /\ twin = << >>

\* allHistory = getServiceHistory(id, dataDir), then recentChecks of
\* calculateTrend(allHistory, ...)
RenderBaseline ==
    /\ view = None
    /\ hist' = getServiceHistory(disk, "web")
    /\ view' = Some([recentChecks |-> RecentChecks(getServiceHistory(disk, "web"))])
    /\ UNCHANGED <<phase, services, probes, results, now, disk, index, pages, clock, runs,
                   pushed, configFile, issues, repo, twin>>

BaselineNext == RenderBaseline

BaselineSpec == BaselineInit /\ [][BaselineNext]_vars

(***************************************************************************)
(* Claims about the baseline of the trend (BaselineSpec)                   *)
(***************************************************************************)
\* the entries of every partition of id, the oldest month first
Chronological(d, id) == FlatMap(d, id, SortAsc(HistoryFiles(d, id)))

\* C34: the baseline of the trend is the mean latency of the 10 most recent up
\* entries of the whole history of the target (of all of them when there are
\* fewer), also when the history lies in two monthly partitions.
C34_BaselineIsMostRecent ==
    view # None =>
        LET used   == view[1].recentChecks
            recent == SliceLast(SelectSeq(Chronological(disk, "web"), IsUp), TREND_WINDOW)
        IN /\ Len(used) = Len(recent)
           /\ SumTimes(used) = SumTimes(recent)

(***************************************************************************)
(* FairSpec: Spec with a scheduler that lets every pending step happen:    *)
(* the event loop runs a continuation that is ready, and an attempt that   *)
(* the network answers, refuses or times out is ended.                     *)
(***************************************************************************)
FairSpec == Spec /\ WF_vars(Next)

\* an attempt that never ends: excluded by the assumption of C35
AnyHung == \E i \in DOMAIN probes : probes[i].pc = "hung"

\* C35: if every attempt ends (succeeds, fails or times out), the batch run
\* eventually finishes with one outcome per target.
C35_RunFinishes ==
    <>(AnyHung \/ (phase = "done" /\ Len(results) = Len(services) /\ Len(services) > 0))

(***************************************************************************)
(* Claims about the fields of an outcome (Spec)                            *)
(***************************************************************************)
\* C36: in every outcome checkUrl returns, status up comes with a null error,
\* a status code is present only for an HTTP target, and status down comes
\* with an error message or with a status code other than the expected one.
C36_OutcomeFields ==
    \A i \in DOMAIN probes :
        Fulfilled(i) =>
            /\ Result(i).status = "up" => Result(i).error = None
            /\ Result(i).statusCode # None => services[i].type = "http"
            /\ Result(i).status = "down" =>
                 \/ Result(i).error # None
                 \/ /\ Result(i).statusCode # None
                    /\ Result(i).statusCode # services[i].expectedStatus

\* a batch with an up outcome, a down outcome that carries a status code and a
\* down outcome that carries an error
C36_Witness ==
    /\ \E i \in DOMAIN probes : Fulfilled(i) /\ Result(i).status = "up"
    /\ \E i \in DOMAIN probes :
         Fulfilled(i) /\ Result(i).status = "down" /\ Result(i).statusCode # None
    /\ \E i \in DOMAIN probes :
         Fulfilled(i) /\ Result(i).status = "down" /\ Result(i).error # None
                      /\ services[i].type # "http"

(***************************************************************************)
(* YamlSpec: parseYAML and parseValue (lib/yaml-parser.js) on a config.yml  *)
(* written as the README shows. A line is the sequence of its characters.  *)
(***************************************************************************)
\* str.trim(): the only white space of the model is the space
RECURSIVE Trim(_)
Trim(str) ==
    IF str = << >> THEN str
    ELSE IF Head(str) = " " THEN Trim(Tail(str))
    ELSE IF str[Len(str)] = " " THEN Trim(SubSeq(str, 1, Len(str) - 1))
    ELSE str

\* str.indexOf(c) + 1: 0 when c is not in str
IndexOf(str, c) ==
    IF \E i \in DOMAIN str : str[i] = c
    THEN CHOOSE i \in DOMAIN str : str[i] = c /\ \A j \in 1..(i - 1) : str[j] # c
    ELSE 0

\* line.search(/\S/): the number of spaces in front of a line that is not blank
IndentOf(line) == IndexOf([i \in DOMAIN line |-> IF line[i] = " " THEN " " ELSE "x"], "x") - 1

\* !isNaN(value): the numerals of the model are strings of decimal digits
IsNumeric(value) ==
    value # << >> /\ \A i \in DOMAIN value : \E d \in 1..10 : DigitChars[d] = value[i]

YamlString(chars) == [t |-> "string", v |-> chars]

YamlNumber(n) == [t |-> "number", v |-> n]

parseValue(value) ==
    IF value = << >> THEN YamlString(<< >>)
    ELSE IF \/ value[1] = "\"" /\ value[Len(value)] = "\""
            \/ value[1] = "'" /\ value[Len(value)] = "'"
    THEN YamlString(SubSeq(value, 2, Len(value) - 1))
    ELSE IF IsNumeric(value) THEN YamlNumber(ToNumber(value))
    ELSE IF value = <<"t", "r", "u", "e">> THEN [t |-> "boolean", v |-> TRUE]
    ELSE IF value = <<"f", "a", "l", "s", "e">> THEN [t |-> "boolean", v |-> FALSE]
    ELSE IF value = <<"n", "u", "l", "l">> THEN [t |-> "null", v |-> << >>]
    ELSE YamlString(value)

\* key and value of a trimmed line that holds a colon: what is in front of the
\* first colon and what is behind it, both trimmed
KeyOfLine(trimmed) == Trim(SubSeq(trimmed, 1, IndexOf(trimmed, ":") - 1))

ValueOfLine(trimmed) == Trim(SubSeq(trimmed, IndexOf(trimmed, ":") + 1, Len(trimmed)))

\* yamlString.split('\n').filter(...): blank lines and comment lines are dropped
YamlLines(doc) ==
    SelectSeq(doc, LAMBDA line : Trim(line) # << >> /\ Head(Trim(line)) # "#")

IsItem(trimmed) == StartsWith(trimmed, <<"-", " ">>)

\* the while loop over the lines behind the first line of an item: obj with
\* the keys of the deeper lines, and the index of the last line it took
RECURSIVE ItemProps(_, _, _, _, _)
ItemProps(lines, j, lineIndent, obj, last) ==
    IF j > Len(lines) THEN [obj |-> obj, i |-> last]
    ELSE LET nextTrimmed == Trim(lines[j]) IN
         IF IndentOf(lines[j]) <= lineIndent \/ IsItem(nextTrimmed)
         THEN [obj |-> obj, i |-> last]
         ELSE IF IndexOf(nextTrimmed, ":") # 0
         THEN ItemProps(lines, j + 1, lineIndent,
                        Put(obj, KeyOfLine(nextTrimmed), parseValue(ValueOfLine(nextTrimmed))), j)
         ELSE ItemProps(lines, j + 1, lineIndent, obj, last)

\* currentArray.push(x), currentArray being result[cur]
Push(result, cur, x) ==
    IF cur = None THEN result
    ELSE [result EXCEPT ![cur[1]] = [t |-> "array", v |-> Append(@.v, x)]]

\* the for loop of parseYAML from line i on
RECURSIVE ParseYamlFrom(_, _, _, _)
ParseYamlFrom(lines, i, result, cur) ==
    IF i > Len(lines) THEN result
    ELSE LET trimmed == Trim(lines[i]) IN
         IF IsItem(trimmed)
         THEN LET item == Trim(SubSeq(trimmed, 3, Len(trimmed))) IN
              IF IndexOf(item, ":") # 0
              THEN LET first == (KeyOfLine(item) :> parseValue(ValueOfLine(item)))
                       props == ItemProps(lines, i + 1, IndentOf(lines[i]), first, i)
                   IN ParseYamlFrom(lines, props.i + 1,
                                    Push(result, cur, [t |-> "object", v |-> props.obj]), cur)
              ELSE ParseYamlFrom(lines, i + 1, Push(result, cur, parseValue(item)), cur)
         ELSE IF IndexOf(trimmed, ":") # 0
         THEN IF ValueOfLine(trimmed) = << >>
              THEN ParseYamlFrom(lines, i + 1,
                                 Put(result, KeyOfLine(trimmed), [t |-> "array", v |-> << >>]),
                                 Some(KeyOfLine(trimmed)))
              ELSE ParseYamlFrom(lines, i + 1,
                                 Put(result, KeyOfLine(trimmed), parseValue(ValueOfLine(trimmed))),
                                 None)
         ELSE ParseYamlFrom(lines, i + 1, result, cur)

parseYAML(doc) == ParseYamlFrom(YamlLines(doc), 1, << >>, None)

\* the keys, the values and the trailing comments of the documented config.yml
YamlKeys == { <<"e", "x", "p", "e", "c", "t", "e", "d">>, <<"m", "e", "t", "h", "o", "d">>, <<"t", "i", "m", "e", "o", "u", "t">> }

YamlValues == { <<"2", "0", "0">>, <<"4", "0", "4">>, <<"1", "0", "0", "0", "0">>, <<"G", "E", "T">>, <<"P", "O", "S", "T">> }

YamlComments == { << >>, <<" ", " ", "#", " ", "O", "p", "t", "i", "o", "n", "a", "l">>, <<" ", " ", "#", " ", "O", "p", "t", "i", "o", "n", "a", "l", " ", "(", "d", "e", "f", "a", "u", "l", "t", ":", " ", "2", "0", "0", ")">> }

\* key: value, then the comment, as one line behind indent spaces
YamlLine(indent, key, value, comment) ==
    [i \in 1..indent |-> " "] \o key \o <<":", " ">> \o value \o comment

\* a config.yml: a setting at the top level, or a setting of the check "web"
YamlDocs ==
    { <<YamlLine(0, k, v, c)>> : k \in YamlKeys, v \in YamlValues, c \in YamlComments }
    \cup { <<<<"c", "h", "e", "c", "k", "s", ":">>, <<" ", " ", "-", " ", "n", "a", "m", "e", ":", " ", "w", "e", "b">>, YamlLine(4, k, v, c)>> :
             k \in YamlKeys, v \in YamlValues, c \in YamlComments }

YamlInit ==
    /\ phase = "idle"
    /\ services = << >>
    /\ probes = << >>
    /\ results = << >>
    /\ now = None
    /\ disk = EmptyDisk
    /\ index = << >>
    /\ pages = {}
    /\ clock = 0
    /\ runs = 0
    /\ pushed = << >>
    /\ \E doc \in YamlDocs : \E header \in BOOLEAN :
         configFile = Some(IF header THEN <<<<"#", " ", "S", "e", "r", "v", "i", "c", "e", "s">>>> \o doc ELSE doc)
    /\ hist = << >>
    /\ view = << >>
    /\ issues = << >>
    /\ repo = << >>
    /\ twin = << >>

\* const config = parseYAML(configFile)
ParseConfig ==
    /\ phase = "idle"
    /\ phase' = "parsed"
    /\ view' = Some(parseYAML(configFile[1]))
    /\ UNCHANGED <<services, probes, results, now, disk, index, pages, clock, runs,
                   pushed, configFile, hist, issues, repo, twin>>

YamlNext == ParseConfig

YamlSpec == YamlInit /\ [][YamlNext]_vars

\* the setting line of a document, the last one, and its key
SettingLine(doc) == Trim(doc[Len(doc)])

\* the text of a value in front of its "  # ..." comment
BeforeComment(value) ==
    IF IndexOf(value, "#") = 0 THEN value
    ELSE Trim(SubSeq(value, 1, IndexOf(value, "#") - 1))

\* what parseYAML gave the setting of the document: at the top level, or in
\* the first check
ParsedSetting(doc, config) ==
    LET key == KeyOfLine(SettingLine(doc)) IN
    IF <<"c", "h", "e", "c", "k", "s">> \in DOMAIN config
    THEN config[<<"c", "h", "e", "c", "k", "s">>].v[1].v[key]
    ELSE config[key]

\* C38: a value followed on its line by a "# ..." comment is read without the
\* comment: 'expected: 200  # Optional (default: 200)' is the number 200 and
\* 'method: GET  # Optional' the string GET.
C38_CommentIsNotPartOfValue ==
    phase = "parsed" =>
        LET doc == configFile[1]
            got == ParsedSetting(doc, view[1])
            want == parseValue(BeforeComment(ValueOfLine(SettingLine(doc))))
        IN got.t = want.t /\ got.v = want.v

(***************************************************************************)
(* OrderSpec: the batch of checkAllServices run twice, over the same        *)
(* targets listed in two orders. The endpoint of a target answers the k-th *)
(* attempt made to it in the same way in both batches.                     *)
(***************************************************************************)
MaxTwin == 2    \* longest list of targets run in two orders

\* the orders in which a list of n targets can be written
Orders(n) == { f \in [1..n -> 1..n] : \A i, j \in 1..n : f[i] = f[j] => i = j }

\* config.services.map(checkUrl) of checkAllServices, called at t0
MapCheckUrl(cfg, t0) == [i \in DOMAIN cfg |-> checkUrl(cfg[i], MapAttempt(i), t0)]

\* the position of target id in a list
PositionOf(cfg, id) == CHOOSE i \in DOMAIN cfg : cfg[i].id = id

\* the probe of a pending call goes on with ev; a settled one stays
Answered(svc, p, ev) == IF p.pc = "pending" THEN checkUrlAttempt(svc, p, ev) ELSE p

OrderInit ==
    /\ phase = "idle"
    /\ services = << >>
    /\ probes = << >>
    /\ results = << >>
    /\ now = None
    /\ disk = EmptyDisk
    /\ index = << >>
    /\ pages = {}
    /\ clock = 0
    /\ runs = 0
    /\ pushed = << >>
    /\ configFile = << >>
    /\ hist = << >>
    /\ view = << >>
    /\ issues = << >>
    /\ repo = << >>
    /\ twin = << >>

\* both batches up to the await of Promise.all
OrderStart ==
    /\ phase = "idle"
    /\ \E cfg \in Configs : \E order \in Orders(Len(cfg)) :
         LET other == [i \in DOMAIN cfg |-> cfg[order[i]]] IN
         /\ Len(cfg) <= MaxTwin
         /\ other # cfg
         /\ services' = cfg
         /\ probes' = MapCheckUrl(cfg, clock)
         /\ twin' = Some([services |-> other, probes |-> MapCheckUrl(other, clock)])
    /\ phase' = "probing"
    /\ runs' = runs + 1
    /\ UNCHANGED <<results, now, disk, index, pages, clock, pushed,
                   configFile, hist, view, issues, repo>>

\* the endpoint of target id answers the next attempt made to it, with the
\* same event in each batch whose call for the target is still pending
OrderAttempt(id) ==
    /\ phase = "probing"
    /\ LET i == PositionOf(services, id)
           j == PositionOf(twin[1].services, id)
       IN /\ probes[i].pc = "pending" \/ twin[1].probes[j].pc = "pending"
          /\ \E ev \in Events(services[i]) :
               /\ probes' = [probes EXCEPT ![i] = Answered(services[i], @, ev)]
               /\ twin' = Some([twin[1] EXCEPT
                                  !.probes[j] = Answered(services[i], @, ev)])
    /\ UNCHANGED <<phase, services, results, now, disk, index, pages, clock, runs, pushed,
                   configFile, hist, view, issues, repo>>

OrderNext ==
    \/ OrderStart
    \/ \E id \in { services[i].id : i \in DOMAIN services } : OrderAttempt(id)

OrderSpec == OrderInit /\ [][OrderNext]_vars

\* what became of a call: the status of its outcome, or how it ended without one
StatusOf(p) == IF p.pc = "fulfilled" THEN p.result[1].status ELSE p.pc

\* C39: two batches of the same targets in different orders, against endpoints
\* that behave identically, give each target the same number of attempts and
\* the same outcome status.
C39_OrderIndependent ==
    phase = "probing" =>
        \A i \in DOMAIN services :
            LET p == probes[i]
                q == twin[1].probes[PositionOf(twin[1].services, services[i].id)]
            IN (p.pc # "pending" /\ q.pc # "pending") =>
                   /\ p.calls = q.calls
                   /\ StatusOf(p) = StatusOf(q)

(***************************************************************************)
(* PageSpec: the service pages generateServicePages writes (index.js) and   *)
(* the click handler of their period buttons (src/main.js).                *)
(***************************************************************************)
\* the period buttons in the order of the template; the k-th child of
\* .history-container is the bar of the k-th period
Periods == <<"24h", "72h", "30d", "60d">>

\* a service page as generated: its buttons and the wrappers of its bars
GeneratedPage ==
    [loaded  |-> FALSE,
     active  |-> [k \in DOMAIN Periods |-> Periods[k] = "72h"],
     pressed |-> [k \in DOMAIN Periods |-> IF Periods[k] = "60d" THEN "true" ELSE "false"],
     display |-> [k \in DOMAIN Periods |-> IF Periods[k] = "72h" THEN "" ELSE "none"]]

\* index of the forEach over historyContainers is 0-based
ShouldShow(period, k) ==
    \/ period = "60d" /\ k - 1 = 3
    \/ period = "30d" /\ k - 1 = 2
    \/ period = "72h" /\ k - 1 = 1
    \/ period = "24h" /\ k - 1 = 0

\* the click listener of the button whose data-period is period
ClickPeriod(page, period) ==
    [page EXCEPT
       !.active  = [k \in DOMAIN Periods |-> Periods[k] = period],
       !.pressed = [k \in DOMAIN Periods |-> IF Periods[k] = period THEN "true" ELSE "false"],
       !.display = [k \in DOMAIN Periods |-> IF ShouldShow(period, k) THEN "block" ELSE "none"]]

\* the pages of the targets of a configuration, as written and just opened
PageInit ==
    /\ phase = "idle"
    /\ \E cfg \in Configs :
         /\ services = cfg
         /\ pages = { cfg[i].id : i \in DOMAIN cfg }
         /\ view = Some([id \in { cfg[i].id : i \in DOMAIN cfg } |-> GeneratedPage])
    /\ probes = << >>
    /\ results = << >>
    /\ now = None
    /\ disk = EmptyDisk
    /\ index = << >>
    /\ clock = 0
    /\ runs = 0
    /\ pushed = << >>
    /\ configFile = << >>
    /\ hist = << >>
    /\ issues = << >>
    /\ repo = << >>
    /\ twin = << >>

\* DOMContentLoaded on the page of target id: the listeners are added
DOMContentLoaded(id) ==
    /\ ~view[1][id].loaded
    /\ view' = Some([view[1] EXCEPT ![id].loaded = TRUE])
    /\ UNCHANGED <<phase, services, probes, results, now, disk, index, pages, clock, runs,
                   pushed, configFile, hist, issues, repo, twin>>

\* a click on a period button of the page of target id
Click(id, period) ==
    /\ view[1][id].loaded
    /\ view' = Some([view[1] EXCEPT ![id] = ClickPeriod(@, period)])
    /\ UNCHANGED <<phase, services, probes, results, now, disk, index, pages, clock, runs,
                   pushed, configFile, hist, issues, repo, twin>>

PageNext ==
    \/ \E id \in pages : DOMContentLoaded(id)
    \/ \E id \in pages : \E k \in DOMAIN Periods : Click(id, Periods[k])

PageSpec == PageInit /\ [][PageNext]_vars

\* the periods a page shows a bar of, marks active and marks pressed
VisibleBars(page) == { k \in DOMAIN Periods : page.display[k] # "none" }

ActiveButtons(page) == { k \in DOMAIN Periods : page.active[k] }

PressedButtons(page) == { k \in DOMAIN Periods : page.pressed[k] = "true" }

Coherent(page) ==
    /\ Cardinality(VisibleBars(page)) = 1
    /\ ActiveButtons(page) = VisibleBars(page)
    /\ PressedButtons(page) = VisibleBars(page)

\* C40: on a service page, as generated and after any clicks on the period
\* buttons, exactly one bar is visible, exactly one button is active, exactly
\* one is pressed, and the three are of the same period.
C40_OnePeriodShown ==
    \A id \in pages : Coherent(view[1][id])

====
